---- MODULE Spec2Model ----
(***************************************************************************)
(* A model of the mlp crate: the flat-buffer layout of the parameter,      *)
(* result and derivative buffers (core/param_buffer.rs,                    *)
(* core/result_buffer.rs, core/deriv_buffer.rs), the forward kernel        *)
(* (core/forward.rs), the back-propagation kernel                          *)
(* (core/back_propagation.rs) and NeuralNetwork::forward (nn.rs).          *)
(*                                                                         *)
(* f32 values are modelled as exact rationals <<numerator, denominator>>   *)
(* in lowest terms: the inputs of the model are small integers and halves, *)
(* on which the sums, products and quotients of the kernels are taken      *)
(* exactly; rounding is not modelled.                                      *)
(*                                                                         *)
(* Buffers are functions over 0 .. len-1, so that every index of the model *)
(* is the index the code computes.  A slice of layers (Box<[LayerRaw]>) is *)
(* a sequence; layer index u of the code is element u + 1 of it.           *)
(***************************************************************************)
EXTENDS Integers, Sequences, FiniteSets, TLC

(***************************************************************************)
(* Bounds of the model.                                                    *)
(***************************************************************************)
MaxLayers == 2      \* layers of a topology
MaxUnits == 4       \* inputs plus neurons of a topology
MaxSamples == 2     \* samples of a batch
MaxSteps == 2       \* calls made on the buffers
MaxNetUnits == 6    \* inputs plus neurons of a NeuralNetwork
MaxNetCalls == 3    \* calls made on a NeuralNetwork

(***************************************************************************)
(* f32 arithmetic (exact rationals).                                       *)
(***************************************************************************)
Abs(x) == IF x < 0 THEN -x ELSE x

RECURSIVE GCD(_, _)
GCD(a, b) == IF b = 0 THEN a ELSE GCD(b, a % b)

\* A quotient by 0.0 is an infinity (<<1, 0>>, <<-1, 0>>) or, for 0.0 / 0.0, not a
\* number (<<0, 0>>).
Rat(n, d) ==
    IF d = 0 THEN <<(IF n > 0 THEN 1 ELSE IF n < 0 THEN -1 ELSE 0), 0>>
    ELSE LET g == GCD(Abs(n), Abs(d))
             s == IF d < 0 THEN -1 ELSE 1
         IN  <<(s * n) \div g, (s * d) \div g>>

F(n) == <<n, 1>>
Zero == <<0, 1>>
NaN == <<0, 0>>
IsFinite(x) == x[2] # 0

\* The sums and products are reduced before they are multiplied out, so that the
\* integers of the model stay small.
FAdd(x, y) ==
    IF IsFinite(x) /\ IsFinite(y)
    THEN LET g == GCD(x[2], y[2])
         IN  Rat(x[1] * (y[2] \div g) + y[1] * (x[2] \div g), (x[2] \div g) * y[2])
    ELSE IF IsFinite(y) THEN x
    ELSE IF IsFinite(x) THEN y
    ELSE IF x = y THEN x ELSE NaN

FNeg(x) == <<-x[1], x[2]>>
FSub(x, y) == FAdd(x, FNeg(y))

FMul(x, y) ==
    IF IsFinite(x) /\ IsFinite(y)
    THEN LET g1 == GCD(Abs(x[1]), y[2])
             g2 == GCD(Abs(y[1]), x[2])
         IN  <<(x[1] \div g1) * (y[1] \div g2), (x[2] \div g2) * (y[2] \div g1)>>
    ELSE Rat(x[1] * y[1], 0)

FDiv(x, y) == FMul(x, Rat(y[2], y[1]))
Powi2(x) == FMul(x, x)

\* The f32 nearest to x (round to nearest, ties to even), for the x whose
\* denominator is a power of two: x itself where its numerator has at most 24 bits.
\* The other rationals of the model (thirds, ...) stand for themselves.
F32(x) ==
    IF ~IsFinite(x) \/ Abs(x[1]) < 2^24 \/ x[2] \notin {2^j : j \in 0 .. 30} THEN x
    ELSE LET n == Abs(x[1])
             \* 2^e is the unit in the last place of the 24-bit significand of
             \* the integer n >= 2^24 (n < 2^31)
             unit == 2^(CHOOSE e \in 1 .. 7 : 2^(23 + e) <= n /\ n < 2^(24 + e))
             \* n / unit rounded to the nearest integer, ties to the even one
             rem == n % unit
             m == IF 2 * rem > unit \/ (2 * rem = unit /\ (n \div unit) % 2 = 1)
                  THEN n \div unit + 1 ELSE n \div unit
         IN  Rat((IF x[1] < 0 THEN -1 ELSE 1) * m * unit, x[2])

\* bytemuck::zeroed_slice_box(n): n floats, all 0.0
Zeroed(n) == [i \in 0 .. n - 1 |-> Zero]

\* Statement order: what the statements before have left (done) is there in full
\* when the next statement (next) begins.
Then(done, next) == IF done = done THEN next ELSE done

\* The value of the one statement of a set: the statements before it have run to
\* their end, and what they left is at hand, when the set is made.
Run(statement) == CHOOSE after \in statement : TRUE

(***************************************************************************)
(* Activation functions: the Identity of activation.rs and a piecewise     *)
(* linear implementation of the ActivationFunction trait supplied by the   *)
(* caller (apply(x) = max(x, 0), deriv(x) = 1 for x > 0, else 0).          *)
(***************************************************************************)
PhiApply(phi, x) ==
    IF phi = "identity" THEN x
    ELSE IF x[1] > 0 THEN x ELSE Zero

PhiDeriv(phi, x) ==
    IF phi = "identity" THEN F(1)
    ELSE IF x[1] > 0 THEN F(1) ELSE Zero

(***************************************************************************)
(* Pointers into a buffer (ptr.rs).  A pointer is the offset from the      *)
(* start of the buffer it was made from.                                   *)
(***************************************************************************)
\* A with_offset that leaves the offset out.
ColPtrWithoutOffset(offset, nrows) == [ptr |-> 0, nrows |-> nrows]

ColPtrWithOffset(offset, nrows) == [ptr |-> offset, nrows |-> nrows]

MatPtrWithOffset(offset, nrows, ncols) ==
    [ptr |-> offset, nrows |-> nrows, ncols |-> ncols]

\* MatPtr::as_mat_ref / as_mat_mut: row stride 1, column stride nrows.
\* A view that takes the floats row by row.
MatIndexRowMajor(m, k, g) == m.ptr + k * m.ncols + g

MatIndex(m, k, g) ==
    LET row_stride == 1
        col_stride == m.nrows
    IN  m.ptr + k * row_stride + g * col_stride

\* ColPtr::as_col_ref / as_col_mut: row stride 1.
ColIndex(c, k) == c.ptr + k

\* The indices a view covers.
ColRegion(c) == {ColIndex(c, k) : k \in 0 .. c.nrows - 1}
MatRegion(m) == {MatIndex(m, k, g) : k \in 0 .. m.nrows - 1, g \in 0 .. m.ncols - 1}

\* The vector a column view shows of a buffer.
ColRead(buffer, c) == [k \in 0 .. c.nrows - 1 |-> buffer[ColIndex(c, k)]]

(***************************************************************************)
(* Topology: n_inputs and the layer descriptions (n_neurons, phi).         *)
(***************************************************************************)
Topology(n_inputs, descs) == [n_inputs |-> n_inputs, layer_descriptions |-> descs]

Panic == [panic |-> TRUE]

(***************************************************************************)
(* ParamBuffer::create                                                     *)
(***************************************************************************)
RECURSIVE ParamNFloats(_, _, _)
ParamNFloats(descs, i, n_previous) ==
    IF i > Len(descs) THEN 0
    ELSE LET n == descs[i].n_neurons
         IN  n * n_previous + n + ParamNFloats(descs, i + 1, n)

\* A layout loop that never updates n_previous.
KeepNPrevious(n, n_previous) == n_previous

\* What the layout loops carry to the next layer: n_previous = n.
NextNPrevious(n, n_previous) == n

RECURSIVE ParamLayers(_, _, _, _)
ParamLayers(descs, i, n_previous, counter) ==
    IF i > Len(descs) THEN <<>>
    ELSE LET n == descs[i].n_neurons
             offset_w == counter
             offset_b == counter + n * n_previous
         IN  <<[n |-> n,
                n_previous |-> n_previous,
                w |-> MatPtrWithOffset(offset_w, n, n_previous),
                b |-> ColPtrWithOffset(offset_b, n),
                phi |-> descs[i].phi]>>
             \o ParamLayers(descs, i + 1, NextNPrevious(n, n_previous), offset_b + n)

\* A create that asserts on the number of layers, not on the number of floats.
ParamBufferCreateAssertLayers(topology) ==
    IF Len(topology.layer_descriptions) = 0 THEN Panic
    ELSE [layers |-> ParamLayers(topology.layer_descriptions, 1, topology.n_inputs, 0),
          buffer |-> Zeroed(ParamNFloats(topology.layer_descriptions, 1,
                                         topology.n_inputs))]

ParamBufferCreate(topology) ==
    LET n_floats == ParamNFloats(topology.layer_descriptions, 1, topology.n_inputs)
    IN  IF n_floats = 0 THEN Panic
        ELSE [layers |-> ParamLayers(topology.layer_descriptions, 1, topology.n_inputs, 0),
              buffer |-> Zeroed(n_floats)]

(***************************************************************************)
(* ResultBuffer::create                                                    *)
(***************************************************************************)
RECURSIVE ResultNFloats(_, _)
ResultNFloats(descs, i) ==
    IF i > Len(descs) THEN 0
    ELSE LET n == descs[i].n_neurons
         IN  n + n + ResultNFloats(descs, i + 1)

RECURSIVE ResultLayers(_, _, _, _)
ResultLayers(descs, i, n_previous, counter) ==
    IF i > Len(descs) THEN <<>>
    ELSE LET n == descs[i].n_neurons
             offset_z == counter
             offset_a == counter + n
         IN  <<[n |-> n,
                n_previous |-> n_previous,
                z |-> ColPtrWithOffset(offset_z, n),
                a |-> ColPtrWithOffset(offset_a, n)]>>
             \o ResultLayers(descs, i + 1, NextNPrevious(n, n_previous), offset_a + n)

ResultBufferCreate(topology) ==
    LET n_floats == ResultNFloats(topology.layer_descriptions, 1)
    IN  IF n_floats = 0 THEN Panic
        ELSE [layers |-> ResultLayers(topology.layer_descriptions, 1, topology.n_inputs, 0),
              buffer |-> Zeroed(n_floats)]

(***************************************************************************)
(* DerivBuffer::create                                                     *)
(***************************************************************************)
RECURSIVE DerivNFloats(_, _, _)
DerivNFloats(descs, i, n_previous) ==
    IF i > Len(descs) THEN 0
    ELSE LET n == descs[i].n_neurons
             dw_size == n * n_previous
             db_size == n
             da_size == n
         IN  dw_size + db_size + da_size + DerivNFloats(descs, i + 1, n)

\* A da_start that counts the da of every layer in.
DerivDaStartPastDa(descs, i, n_previous) == DerivNFloats(descs, i, n_previous)

RECURSIVE DerivDaStart(_, _, _)
DerivDaStart(descs, i, n_previous) ==
    IF i > Len(descs) THEN 0
    ELSE LET n == descs[i].n_neurons
             dw_size == n * n_previous
             db_size == n
         IN  dw_size + db_size + DerivDaStart(descs, i + 1, n)

RECURSIVE DerivLayers(_, _, _, _, _)
DerivLayers(descs, i, n_previous, counter_params, counter_da) ==
    IF i > Len(descs) THEN <<>>
    ELSE LET n == descs[i].n_neurons
             offset_dw == counter_params
             offset_db == counter_params + n * n_previous
             offset_da == counter_da
         IN  <<[n |-> n,
                n_previous |-> n_previous,
                dw |-> MatPtrWithOffset(offset_dw, n, n_previous),
                db |-> ColPtrWithOffset(offset_db, n),
                da |-> ColPtrWithOffset(offset_da, n)]>>
             \o DerivLayers(descs, i + 1, NextNPrevious(n, n_previous),
                            offset_db + n, counter_da + n)

DerivBufferCreate(topology) ==
    LET descs == topology.layer_descriptions
        n_floats == DerivNFloats(descs, 1, topology.n_inputs)
        da_start == DerivDaStart(descs, 1, topology.n_inputs)
    IN  IF n_floats = 0 THEN Panic
        ELSE [layers |-> DerivLayers(descs, 1, topology.n_inputs, 0, da_start),
              da_start |-> da_start,
              buffer |-> Zeroed(n_floats)]

\* n_layers(), layer(u) / layer_unchecked(u) of the three buffers.
NLayers(buf) == Len(buf.layers)
Layer(buf, u) == buf.layers[u + 1]

\* A bounds check that turns the last layer away.
LayerButLast(buf, index) ==
    IF index + 1 < NLayers(buf) THEN <<Layer(buf, index)>> ELSE <<>>

\* layer(index) of the three buffers: Some(view) is <<view>>, None is <<>>.
layer(buf, index) ==
    IF index < NLayers(buf) THEN <<Layer(buf, index)>> ELSE <<>>

\* layer_mut(index) of the three buffers.
layer_mut(buf, index) ==
    IF index < NLayers(buf) THEN <<Layer(buf, index)>> ELSE <<>>

\* A get_disjoint_mut that checks the bounds only.
GetDisjointInBounds(layers, indices) ==
    IF \E i \in 1 .. Len(indices) : indices[i] >= Len(layers)
    THEN [err |-> "IndexOutOfBounds"]
    ELSE [ok |-> [i \in 1 .. Len(indices) |-> layers[indices[i] + 1]]]

\* self.layers.get_disjoint_mut(indices): the first index, in the order of the
\* array, that is out of bounds or equal to one before it decides the error.
get_disjoint_mut(layers, indices) ==
    LET OutOfBounds(i) == indices[i] >= Len(layers)
        Overlapping(i) == \E j \in 1 .. i - 1 : indices[j] = indices[i]
        bad == {i \in 1 .. Len(indices) : OutOfBounds(i) \/ Overlapping(i)}
    IN  IF bad = {}
        THEN [ok |-> [i \in 1 .. Len(indices) |-> layers[indices[i] + 1]]]
        ELSE LET first == CHOOSE i \in bad : \A j \in bad : i <= j
             IN  [err |-> IF OutOfBounds(first) THEN "IndexOutOfBounds"
                          ELSE "OverlappingIndices"]

\* layer_disjoint_mut(indices) of the three buffers: Err(e) is [err |-> e], Ok(views)
\* is [ok |-> views].
layer_disjoint_mut(buf, indices) == get_disjoint_mut(buf.layers, indices)

\* as_slice(): the floats of the buffer, in the order of the allocation.
as_slice(buf) == [i \in 1 .. Cardinality(DOMAIN buf.buffer) |-> buf.buffer[i - 1]]

(***************************************************************************)
(* forward_unchecked (core/forward.rs)                                     *)
(***************************************************************************)
\* Row k of L * R: the sum over g of L[k][g] * R[g], g < n.
RECURSIVE DotRow(_, _, _, _, _)
DotRow(buffer, w, k, a_prev, n) ==
    IF n = 0 THEN Zero
    ELSE FAdd(DotRow(buffer, w, k, a_prev, n - 1),
              FMul(buffer[MatIndex(w, k, n - 1)], a_prev[n - 1]))

\* faer::Accum::Add: A = alpha * L * R + A.
AccumAdd(old, product) == FAdd(old, product)

\* faer::Accum::Replace: A = alpha * L * R + beta * A with beta = 0.
Accum(old, product) == product

\* matmul(z, Accum::Replace, W, a_prev, 1.0, Par::Seq), rows 0 .. n-1 of z.
RECURSIVE MatMul(_, _, _, _, _, _)
MatMul(rbuffer, z, pbuffer, w, a_prev, n) ==
    IF n = 0 THEN rbuffer
    ELSE LET k == n - 1
             done == MatMul(rbuffer, z, pbuffer, w, a_prev, n - 1)
         IN  Then(done, [done EXCEPT ![ColIndex(z, k)] =
                            Accum(@, DotRow(pbuffer, w, k, a_prev, w.ncols))])

\* for k in 0..layer_params.n { z[k] += b[k]; a[k] = phi(z[k]); }, k < n.
RECURSIVE BiasActivate(_, _, _, _, _)
BiasActivate(rbuffer, layer_results, pbuffer, layer_params, n) ==
    IF n = 0 THEN rbuffer
    ELSE LET k == n - 1
             done == BiasActivate(rbuffer, layer_results, pbuffer, layer_params, n - 1)
             zk == FAdd(done[ColIndex(layer_results.z, k)],
                        pbuffer[ColIndex(layer_params.b, k)])
         IN  Then(done, [done EXCEPT
                 ![ColIndex(layer_results.z, k)] = zk,
                 ![ColIndex(layer_results.a, k)] = PhiApply(layer_params.phi, zk)])

\* The body of the loop over u.
ForwardLayer(input, param_buffer, rbuffer, rlayers, u) ==
    LET layer_params == Layer(param_buffer, u)
        layer_results == rlayers[u + 1]
        a_prev == IF u = 0 THEN input ELSE ColRead(rbuffer, rlayers[u].a)
        z == MatMul(rbuffer, layer_results.z, param_buffer.buffer, layer_params.w,
                    a_prev, layer_params.n)
    IN  BiasActivate(z, layer_results, param_buffer.buffer, layer_params, layer_params.n)

\* for u in 0..param_buffer.n_layers(), the first n iterations.
RECURSIVE ForwardLoop(_, _, _, _, _)
ForwardLoop(input, param_buffer, rbuffer, rlayers, n) ==
    IF n = 0 THEN rbuffer
    ELSE LET done == ForwardLoop(input, param_buffer, rbuffer, rlayers, n - 1)
         IN  Then(done, ForwardLayer(input, param_buffer, done, rlayers, n - 1))

forward_unchecked(input, param_buffer, result_buffer) ==
    [result_buffer EXCEPT !.buffer =
        ForwardLoop(input, param_buffer, result_buffer.buffer, result_buffer.layers,
                    NLayers(param_buffer))]


(***************************************************************************)
(* Back propagation (core/back_propagation.rs).                            *)
(*                                                                         *)
(* The kernels work on a record st:                                        *)
(*   rbuffer, dbuffer  the floats of the result and the deriv buffer       *)
(*   l_i               the loss of the sample being processed              *)
(* An Option is <<>> (None) or <<v>> (Some(v)).  As a log of what the pass *)
(* did (no code reads it), st also holds                                   *)
(*   tag     for every index of dbuffer, the sample in whose pass it was   *)
(*           last zeroed by the da_prev loop (0: not in this call) and the *)
(*           number of += it received since                                *)
(*   order   the <<sample, layer>> pairs in the order they were processed  *)
(*   reads   the reads of da[k] by non-output layers                       *)
(***************************************************************************)
\* A pass that leaves da_prev as it finds it.
KeepDaPrev(st, da_prev, sample) == st

\* for dag in da_prev.rb_mut().iter_mut() { *dag = 0.0; }
ZeroDaPrev(st, da_prev, sample) ==
    [st EXCEPT !.dbuffer = [i \in DOMAIN st.dbuffer |->
                               IF i \in ColRegion(da_prev) THEN Zero ELSE st.dbuffer[i]],
               !.tag = [i \in DOMAIN st.tag |->
                               IF i \in ColRegion(da_prev)
                               THEN [zeroed |-> sample, adds |-> 0] ELSE st.tag[i]]]

\* An error term that is a[k] - y[k] on every layer.
ErrorTermOfOutput(is_output_layer, a_k, y_k, da_k) == FSub(a_k, y_k)

\* An error term that is da[k] on every layer.
ErrorTermOfDa(is_output_layer, a_k, y_k, da_k) == da_k

\* dak of neuron k: a[k] - y[k] on the output layer, da[k] elsewhere.
ErrorTerm(is_output_layer, a_k, y_k, da_k) ==
    IF is_output_layer THEN FSub(a_k, y_k) ELSE da_k

\* for g in 0..n_g { dw[(k, g)] += ...; da_prev[g] += ...; }, g < n.
RECURSIVE BackPropagateInputs(_, _, _, _, _, _, _, _, _)
BackPropagateInputs(st, pbuffer, layer_params, layer_derivs, a_prev, da_prev, k, delta, n) ==
    IF n = 0 THEN st
    ELSE LET g == n - 1
             done == BackPropagateInputs(st, pbuffer, layer_params, layer_derivs,
                                         a_prev, da_prev, k, delta, n - 1)
             dw_i == MatIndex(layer_derivs.dw, k, g)
             with_dw == [done EXCEPT !.dbuffer[dw_i] = FAdd(@, FMul(delta, a_prev[g]))]
         IN  Then(done,
                  IF da_prev = <<>> THEN with_dw
                  ELSE LET da_i == ColIndex(da_prev[1], g)
                       IN  [with_dw EXCEPT
                               !.dbuffer[da_i] =
                                   FAdd(@, FMul(delta,
                                                pbuffer[MatIndex(layer_params.w, k, g)])),
                               !.tag[da_i].adds = @ + 1])

\* for k in 0..n_k { ... }, k < n.
RECURSIVE BackPropagateNeurons(_, _, _, _, _, _, _, _, _, _, _, _)
BackPropagateNeurons(st, is_output_layer, a_prev, pbuffer, layer_params, layer_derivs, layer_results, da_prev, y, sample, u, n) ==
    IF n = 0 THEN st
    ELSE LET k == n - 1
             done == BackPropagateNeurons(st, is_output_layer, a_prev, pbuffer,
                                          layer_params, layer_derivs, layer_results,
                                          da_prev, y, sample, u, n - 1)
             phi_deriv_z == PhiDeriv(layer_params.phi,
                                     done.rbuffer[ColIndex(layer_results.z, k)])
             da_i == ColIndex(layer_derivs.da, k)
             dak == ErrorTerm(is_output_layer,
                              done.rbuffer[ColIndex(layer_results.a, k)],
                              IF is_output_layer THEN y[k] ELSE Zero,
                              done.dbuffer[da_i])
             delta == FMul(dak, phi_deriv_z)
             logged == IF is_output_layer THEN done
                       ELSE [done EXCEPT !.reads = Append(@,
                                [sample |-> sample, u |-> u, k |-> k, value |-> dak,
                                 zeroed |-> done.tag[da_i].zeroed,
                                 adds |-> done.tag[da_i].adds])]
             with_db == [logged EXCEPT !.dbuffer[ColIndex(layer_derivs.db, k)] =
                                           FAdd(@, delta)]
         IN  Then(done,
                  BackPropagateInputs(with_db, pbuffer, layer_params, layer_derivs,
                                      a_prev, da_prev, k, delta, layer_params.n_previous))

back_propagate_layer(st, is_output_layer, a_prev, pbuffer, layer_params, layer_derivs, layer_results, da_prev, y, sample, u) ==
    LET zeroed == IF da_prev = <<>> THEN st ELSE ZeroDaPrev(st, da_prev[1], sample)
    IN  BackPropagateNeurons(zeroed, is_output_layer, a_prev, pbuffer, layer_params,
                             layer_derivs, layer_results, da_prev, y, sample, u,
                             layer_params.n)

\* The body of the loop over u of back_propagate_sample.
BackPropagateStep(st, param_buffer, rlayers, dlayers, x, y, sample, u) ==
    LET n_layers == NLayers(param_buffer)
        a_prev == IF u = 0 THEN x ELSE ColRead(st.rbuffer, rlayers[u].a)
        layer_results == rlayers[u + 1]
        da_prev == IF u = 0 THEN <<>> ELSE <<dlayers[u].da>>
        layer_derivs == dlayers[u + 1]
        nn_layer == Layer(param_buffer, u)
        is_output_layer == (u + 1 = n_layers)
        a == ColRead(st.rbuffer, layer_results.a)
        l_i == IF is_output_layer
               THEN LET RECURSIVE SquaredError(_)
                        SquaredError(n) ==
                            IF n = 0 THEN st.l_i
                            ELSE FAdd(SquaredError(n - 1), Powi2(FSub(a[n - 1], y[n - 1])))
                    IN  SquaredError(layer_results.n)
               ELSE st.l_i
        entered == [st EXCEPT !.l_i = l_i, !.order = Append(@, <<sample, u>>)]
    IN  back_propagate_layer(entered, is_output_layer, a_prev, param_buffer.buffer,
                             nn_layer, layer_derivs, layer_results, da_prev, y, sample, u)

\* for u in (0..n_layers).rev(), the first n iterations: iteration i (from 0) takes
\* layer n_layers - 1 - i.
RECURSIVE BackPropagateLoop(_, _, _, _, _, _, _, _)
BackPropagateLoop(st, param_buffer, rlayers, dlayers, x, y, sample, n) ==
    IF n = 0 THEN st
    ELSE LET done == BackPropagateLoop(st, param_buffer, rlayers, dlayers, x, y,
                                       sample, n - 1)
         IN  Then(done, BackPropagateStep(done, param_buffer, rlayers, dlayers, x, y,
                                          sample, NLayers(param_buffer) - 1 - (n - 1)))

\* Returns st with l_i the loss of the sample.
back_propagate_sample(st, param_buffer, rlayers, dlayers, x, y, sample) ==
    Run({BackPropagateLoop(forwarded, param_buffer, rlayers, dlayers, x, y, sample,
                           NLayers(param_buffer)) :
            forwarded \in {[st EXCEPT
                !.rbuffer = ForwardLoop(x, param_buffer, st.rbuffer, rlayers,
                                        NLayers(param_buffer)),
                !.l_i = Zero]}})

\* A clear_params that clears nothing.
KeepParams(deriv_buffer) == deriv_buffer

\* DerivBuffer::clear_params: bytemuck::fill_zeroes(self.params_mut())
clear_params(deriv_buffer) ==
    [deriv_buffer EXCEPT !.buffer = [i \in DOMAIN deriv_buffer.buffer |->
        IF i < deriv_buffer.da_start THEN Zero ELSE deriv_buffer.buffer[i]]]

\* for (x_i, y_i) in samples { n += 1; loss += back_propagate_sample(..) }, the first
\* n samples.  A sample is <<x, y>>.
RECURSIVE SamplesLoop(_, _, _, _, _, _)
SamplesLoop(st, param_buffer, rlayers, dlayers, samples, n) ==
    IF n = 0 THEN st
    ELSE Run({Run({[s EXCEPT !.loss = FAdd(done.loss, s.l_i)] :
                      s \in {back_propagate_sample(done, param_buffer, rlayers, dlayers,
                                                   samples[n][1], samples[n][2], n)}}) :
                 done \in {SamplesLoop(st, param_buffer, rlayers, dlayers, samples,
                                       n - 1)}})

\* A return of the loss that is not divided.
TotalLoss(loss, n) == loss

\* loss / n
AverageLoss(loss, n) == FDiv(loss, n)

\* for p in deriv_buffer.params_mut() { *p /= n; }
AverageParams(dbuffer, da_start, n) ==
    [i \in DOMAIN dbuffer |-> IF i < da_start THEN FDiv(dbuffer[i], n) ELSE dbuffer[i]]

\* Returns the result buffer and the deriv buffer as the call leaves them, the
\* returned loss, and the log of the pass.
calculate_derivs(param_buffer, result_buffer, deriv_buffer, samples) ==
    LET cleared == clear_params(deriv_buffer)
        st0 == [rbuffer |-> result_buffer.buffer,
                dbuffer |-> cleared.buffer,
                loss |-> Zero,
                l_i |-> Zero,
                tag |-> [i \in DOMAIN cleared.buffer |-> [zeroed |-> 0, adds |-> 0]],
                order |-> <<>>,
                reads |-> <<>>]
        n == F(Len(samples))
    IN  Run({[result_buffer |-> [result_buffer EXCEPT !.buffer = st.rbuffer],
              deriv_buffer |-> [deriv_buffer EXCEPT
                  !.buffer = AverageParams(st.dbuffer, deriv_buffer.da_start, n)],
              loss |-> AverageLoss(st.loss, n),
              order |-> st.order,
              reads |-> st.reads] :
                st \in {SamplesLoop(st0, param_buffer, result_buffer.layers,
                                    deriv_buffer.layers, samples, Len(samples))}})

\* A step up the gradient.
StepUphill(p, dp, eta) == FAdd(p, FMul(eta, dp))

\* A step that assigns: *p = -(eta * (*dp)).
StepAssign(p, dp, eta) == FNeg(FMul(eta, dp))

\* for (p, dp) in iter::zip(param_buffer, deriv_param_buffer) { *p -= eta * (*dp); }
\* zip stops at the shorter of the two slices.
Step(p, dp, eta) == FSub(p, FMul(eta, dp))

apply_derivs(param_buffer, deriv_buffer, eta) ==
    [param_buffer EXCEPT !.buffer = [i \in DOMAIN param_buffer.buffer |->
        IF i < deriv_buffer.da_start
        THEN Step(param_buffer.buffer[i], deriv_buffer.buffer[i], eta)
        ELSE param_buffer.buffer[i]]]

\* *p -= eta * (*dp) with the product and the difference rounded to f32, which is
\* Step wherever both are representable.
StepF32(p, dp, eta) == F32(FSub(p, F32(FMul(eta, dp))))

\* apply_derivs on parameters that need the whole significand of an f32.
apply_derivs_f32(param_buffer, deriv_buffer, eta) ==
    [param_buffer EXCEPT !.buffer = [i \in DOMAIN param_buffer.buffer |->
        IF i < deriv_buffer.da_start
        THEN StepF32(param_buffer.buffer[i], deriv_buffer.buffer[i], eta)
        ELSE param_buffer.buffer[i]]]


(***************************************************************************)
(* NeuralNetwork (nn.rs): one buffer, the parameters of every layer first  *)
(* and, from za_start, z and a of every layer.  Layers are numbered from 1.*)
(***************************************************************************)
size_of_layer_params(n_previous, n) == n_previous * n + n

size_of_layer(n_previous, n) == n_previous * n + n + n + n

RECURSIVE StorageAllocationSize(_, _, _)
StorageAllocationSize(descs, i, n_previous) ==
    IF i > Len(descs) THEN 0
    ELSE LET n == descs[i].n_neurons
         IN  size_of_layer(n_previous, n) + StorageAllocationSize(descs, i + 1, n)

\* A za_start at the start of the buffer.
StorageZaStartAtZero(descs, i, n_previous) == 0

RECURSIVE StorageZaStart(_, _, _)
StorageZaStart(descs, i, n_previous) ==
    IF i > Len(descs) THEN 0
    ELSE LET n == descs[i].n_neurons
         IN  size_of_layer_params(n_previous, n) + StorageZaStart(descs, i + 1, n)

RECURSIVE StorageLayers(_, _, _, _, _)
StorageLayers(descs, i, n_previous, counter_params, counter_za) ==
    IF i > Len(descs) THEN <<>>
    ELSE LET n == descs[i].n_neurons
             offset_w == counter_params
             offset_b == offset_w + n * n_previous
             offset_z == counter_za
             offset_a == counter_za + n
         IN  <<[n_previous |-> n_previous,
                n |-> n,
                w |-> MatPtrWithOffset(offset_w, n, n_previous),
                b |-> ColPtrWithOffset(offset_b, n),
                phi |-> descs[i].phi,
                z |-> ColPtrWithOffset(offset_z, n),
                a |-> ColPtrWithOffset(offset_a, n)]>>
             \o StorageLayers(descs, i + 1, n, offset_b + n, offset_a + n)

\* Storage::new_in
StorageNewIn(n_inputs, layer_descriptions) ==
    LET n_floats == StorageAllocationSize(layer_descriptions, 1, n_inputs)
        za_start == StorageZaStart(layer_descriptions, 1, n_inputs)
    IN  [layers |-> StorageLayers(layer_descriptions, 1, n_inputs, 0, za_start),
         buffer |-> Zeroed(n_floats),
         za_start |-> za_start]

\* NeuralNetwork::new_in, for N_LAYERS /= 0.
NeuralNetworkNewIn(n_inputs, layer_descriptions) ==
    [n_layers |-> Len(layer_descriptions),
     n_inputs |-> n_inputs,
     n_outputs |-> layer_descriptions[Len(layer_descriptions)].n_neurons,
     storage |-> StorageNewIn(n_inputs, layer_descriptions)]

\* Storage::raw_layer_unchecked(i_layer), i_layer in 1 ..= n_layers.
RawLayer(storage, i_layer) == storage.layers[i_layer]

\* Storage::params_buffer: &self.buffer[0..self.za_start]
params_buffer(storage) == [i \in 1 .. storage.za_start |-> storage.buffer[i - 1]]

\* A load_params that takes any buffer long enough.
LoadParamsAtLeast(storage, buffer) ==
    IF Len(buffer) < storage.za_start
    THEN [storage |-> storage, result |-> "Err(IncorrectLength)"]
    ELSE [storage |-> [storage EXCEPT !.buffer = [i \in DOMAIN storage.buffer |->
                          IF i < storage.za_start THEN buffer[i + 1]
                          ELSE storage.buffer[i]]],
          result |-> "Ok(())"]

\* Storage::load_params: the storage after the call and the Result returned.
LoadParams(storage, buffer) ==
    IF Len(buffer) # storage.za_start
    THEN [storage |-> storage, result |-> "Err(IncorrectLength)"]
    ELSE [storage |-> [storage EXCEPT !.buffer = [i \in DOMAIN storage.buffer |->
                          IF i < storage.za_start THEN buffer[i + 1]
                          ELSE storage.buffer[i]]],
          result |-> "Ok(())"]

\* *p.add(i) for p the start of the buffer: the float at index i, and past the end
\* of the allocation whatever the build finds there (junk).
Deref(buffer, i, junk) == IF i \in DOMAIN buffer THEN buffer[i] ELSE junk

\* *a_prev.add(g): a_prev points to the input slice or into the buffer.
DerefAPrev(buffer, a_prev, g) ==
    IF "input" \in DOMAIN a_prev THEN a_prev.input[g + 1] ELSE buffer[a_prev.ptr + g]

\* w.add(g * n_prev + k): the index of the float read as w[k][g].
ForwardWeightIndex(w, n_prev, k, g) == w + g * n_prev + k

\* for g in 0..n_prev { wkg = *w.add(g * n_prev + k); *zk = wkg * a_prev_g; }, g < n.
RECURSIVE ForwardLayerInputs(_, _, _, _, _, _, _, _)
ForwardLayerInputs(buffer, n_prev, z, w, a_prev, k, junk, n) ==
    IF n = 0 THEN buffer
    ELSE LET g == n - 1
             done == ForwardLayerInputs(buffer, n_prev, z, w, a_prev, k, junk, n - 1)
             wkg == Deref(done, ForwardWeightIndex(w, n_prev, k, g), junk)
             a_prev_g == DerefAPrev(done, a_prev, g)
         IN  Then(done, [done EXCEPT ![z + k] = FMul(wkg, a_prev_g)])

\* for k in 0..n { ...; *zk += *bk; *ak = phi(*zk); }, k < m.
RECURSIVE ForwardLayerNeurons(_, _, _, _, _, _, _, _, _, _)
ForwardLayerNeurons(buffer, n_prev, a, z, w, b, a_prev, phi, junk, m) ==
    IF m = 0 THEN buffer
    ELSE LET k == m - 1
             done == ForwardLayerNeurons(buffer, n_prev, a, z, w, b, a_prev, phi, junk,
                                         m - 1)
             multiplied == ForwardLayerInputs(done, n_prev, z, w, a_prev, k, junk, n_prev)
             zk == FAdd(multiplied[z + k], multiplied[b + k])
         IN  Then(done, [multiplied EXCEPT ![z + k] = zk, ![a + k] = PhiApply(phi, zk)])

\* NeuralNetwork::forward_layer
forward_layer(buffer, n, n_prev, a, z, w, b, a_prev, phi, junk) ==
    ForwardLayerNeurons(buffer, n_prev, a, z, w, b, a_prev, phi, junk, n)

\* for i_layer in 1..=self.n_layers() of NeuralNetwork::forward, the first m layers.
RECURSIVE NNForwardLoop(_, _, _, _)
NNForwardLoop(net, input_layer, junk, m) ==
    IF m = 0 THEN net.storage.buffer
    ELSE LET i_layer == m
             done == NNForwardLoop(net, input_layer, junk, m - 1)
             a_prev == IF i_layer = 1 THEN [input |-> input_layer]
                       ELSE [ptr |-> RawLayer(net.storage, i_layer - 1).a.ptr]
             raw == RawLayer(net.storage, i_layer)
         IN  Then(done, forward_layer(done, raw.n, raw.n_previous, raw.a.ptr,
                                      raw.z.ptr, raw.w.ptr, raw.b.ptr, a_prev,
                                      raw.phi, junk))

\* panic!("... incorrect input dimensions (expected {expected}, found {found})")
IncorrectInputDimensions(expected, found) ==
    [panic |-> TRUE, expected |-> expected, found |-> found]

\* A forward that turns away the inputs that are too short only.
NNForwardAcceptLonger(net, input_layer, junk) ==
    IF Len(input_layer) < net.n_inputs
    THEN IncorrectInputDimensions(net.n_inputs, Len(input_layer))
    ELSE LET buffer == NNForwardLoop(net, input_layer, junk, net.n_layers)
         IN  [nn |-> [net EXCEPT !.storage.buffer = buffer],
              output |-> ColRead(buffer, RawLayer(net.storage, net.n_layers).a)]

\* NeuralNetwork::forward: the network after the call and the vector returned, or
\* the panic on an input of the wrong length.
NNForward(net, input_layer, junk) ==
    IF Len(input_layer) # net.n_inputs
    THEN IncorrectInputDimensions(net.n_inputs, Len(input_layer))
    ELSE LET buffer == NNForwardLoop(net, input_layer, junk, net.n_layers)
         IN  [nn |-> [net EXCEPT !.storage.buffer = buffer],
              output |-> ColRead(buffer, RawLayer(net.storage, net.n_layers).a)]

(***************************************************************************)
(* NeuralNetworkDerivs (deriv_buffer.rs): one zeroed buffer with, layer    *)
(* after layer, dw, db and da of the layer.                                *)
(***************************************************************************)
\* The loop of NeuralNetworkDerivs::new_in: the offset of every layer.
RECURSIVE DerivsLayerOffsets(_, _, _, _)
DerivsLayerOffsets(layer_sizes, i, n_previous, allocation_size) ==
    IF i > Len(layer_sizes) THEN <<>>
    ELSE LET n == layer_sizes[i]
         IN  <<allocation_size>>
             \o DerivsLayerOffsets(layer_sizes, i + 1, n,
                                   allocation_size + n * n_previous + n + n)

RECURSIVE DerivsAllocationSize(_, _, _)
DerivsAllocationSize(layer_sizes, i, n_previous) ==
    IF i > Len(layer_sizes) THEN 0
    ELSE LET n == layer_sizes[i]
         IN  n * n_previous + n + n + DerivsAllocationSize(layer_sizes, i + 1, n)

\* NeuralNetworkDerivs::new_in
NeuralNetworkDerivsNewIn(n_inputs, layer_sizes) ==
    [n_inputs |-> n_inputs,
     n_layers |-> Len(layer_sizes),
     layer_sizes |-> layer_sizes,
     layer_offsets |-> DerivsLayerOffsets(layer_sizes, 1, n_inputs, 0),
     buffer |-> Zeroed(DerivsAllocationSize(layer_sizes, 1, n_inputs))]

\* NeuralNetworkDerivs::get_layer_mut: the views of layer u; da_previous is <<>> for
\* None and <<view>> for Some(view).
get_layer_mut(derivs, u) ==
    IF u \notin 1 .. derivs.n_layers THEN [none |-> TRUE]
    ELSE LET \* NeuralNetworkDerivs::layer_size
             layer_size(i_layer) ==
                 IF i_layer = 0 THEN derivs.n_inputs ELSE derivs.layer_sizes[i_layer]
             n == layer_size(u)
             n_previous == layer_size(u - 1)
             offset_w == derivs.layer_offsets[u]
             offset_b == offset_w + n * n_previous
             offset_da == offset_b + n
         IN  [n_previous |-> n_previous,
              n |-> n,
              da_previous |-> IF u # 1
                              THEN <<ColPtrWithOffset(offset_w - n_previous, n_previous)>>
                              ELSE <<>>,
              dw |-> MatPtrWithOffset(offset_w, n, n_previous),
              db |-> ColPtrWithOffset(offset_b, n),
              da |-> ColPtrWithOffset(offset_da, n)]

\* NeuralNetwork::go_to_gym: the deriv buffer of the Gym of a network.
go_to_gym(net) ==
    NeuralNetworkDerivsNewIn(net.n_inputs,
                             [u \in 1 .. net.n_layers |-> RawLayer(net.storage, u).n])

(***************************************************************************)
(* Gym (gym.rs): train on a NeuralNetwork with its NeuralNetworkDerivs.    *)
(***************************************************************************)
\* for g in 0..nn_layer.n_previous of Gym::train_sample, g < n: the floats of the
\* deriv buffer after it.
RECURSIVE TrainSampleInputs(_, _, _, _, _, _, _, _, _, _)
TrainSampleInputs(deriv, buffer, nn_layer, deriv_buffer_layer, a_prev, dak, phi_deriv_zk, dbk, k, n) ==
    LET \* the body of the loop for g, on the floats done that the iterations before
        \* have left
        body(done, g) ==
            LET a_prev_g == DerefAPrev(buffer, a_prev, g)
                dwkg == FMul(dbk, a_prev_g)
                i_dw == MatIndex(deriv_buffer_layer.dw, k, g)
            IN  IF deriv_buffer_layer.da_previous = <<>>
                THEN [done EXCEPT ![i_dw] = FAdd(done[i_dw], dwkg)]
                ELSE LET i_da == ColIndex(deriv_buffer_layer.da_previous[1], g)
                         wkg == buffer[MatIndex(nn_layer.w, k, g)]
                     IN  [done EXCEPT ![i_dw] = FAdd(done[i_dw], dwkg),
                                      ![i_da] = FAdd(done[i_da],
                                                     FMul(FMul(dak, phi_deriv_zk), wkg))]
    IN  IF n = 0 THEN deriv
        ELSE Run({body(done, n - 1) :
                     done \in {TrainSampleInputs(deriv, buffer, nn_layer,
                                                 deriv_buffer_layer, a_prev, dak,
                                                 phi_deriv_zk, dbk, k, n - 1)}})

\* for k in 0..nn_layer.n of Gym::train_sample, k < m: the floats of the deriv buffer
\* and l_i after it.
RECURSIVE TrainSampleNeurons(_, _, _, _, _, _, _, _, _)
TrainSampleNeurons(st, buffer, nn_layer, deriv_buffer_layer, a_prev, y, is_output_layer, junk, m) ==
    LET \* the body of the loop for k, on what the iterations before have left (done);
        \* *y.get_unchecked(k) is, past the end of y, whatever the build finds there
        \* (junk)
        body(done, k) ==
            LET ak == buffer[ColIndex(nn_layer.a, k)]
                yk == IF k + 1 \in DOMAIN y THEN y[k + 1] ELSE junk
                e_k == FSub(ak, yk)
                dak == IF is_output_layer THEN e_k
                       ELSE done.deriv[ColIndex(deriv_buffer_layer.da, k)]
                zk == buffer[ColIndex(nn_layer.z, k)]
                i_db == ColIndex(deriv_buffer_layer.db, k)
            IN  Run({[deriv |-> TrainSampleInputs(
                                    [done.deriv EXCEPT ![i_db] = FAdd(done.deriv[i_db], v.dbk)],
                                    buffer, nn_layer, deriv_buffer_layer, a_prev, v.dak,
                                    v.phi_deriv_zk, v.dbk, k, nn_layer.n_previous),
                      l_i |-> IF is_output_layer THEN FAdd(done.l_i, Powi2(v.dak))
                              ELSE done.l_i] :
                        v \in {[dak |-> dak, phi_deriv_zk |-> PhiDeriv(nn_layer.phi, zk),
                                dbk |-> FMul(dak, PhiDeriv(nn_layer.phi, zk))]}})
    IN  IF m = 0 THEN st
        ELSE Run({body(done, m - 1) :
                     done \in {TrainSampleNeurons(st, buffer, nn_layer, deriv_buffer_layer,
                                                  a_prev, y, is_output_layer, junk,
                                                  m - 1)}})

\* for u in (1..=n_layers).rev() of Gym::train_sample, the last m layers.  net is the
\* network after its forward.
RECURSIVE TrainSampleLayers(_, _, _, _, _, _, _)
TrainSampleLayers(st, net, derivs, x, y, junk, m) ==
    LET \* the body of the loop for u, on what the iterations before have left (done)
        body(done, u) ==
            Run({TrainSampleNeurons(
                     [done EXCEPT !.deriv =
                         IF deriv_buffer_layer.da_previous = <<>> THEN done.deriv
                         ELSE [i \in DOMAIN done.deriv |->
                                  IF i \in ColRegion(deriv_buffer_layer.da_previous[1])
                                  THEN Zero ELSE done.deriv[i]]],
                     net.storage.buffer, RawLayer(net.storage, u), deriv_buffer_layer,
                     IF u = 1 THEN [input |-> x]
                     ELSE [ptr |-> RawLayer(net.storage, u - 1).a.ptr],
                     y, u = net.n_layers, junk, RawLayer(net.storage, u).n) :
                    deriv_buffer_layer \in {get_layer_mut(derivs, u)}})
    IN  IF m = 0 THEN st
        ELSE Run({body(done, net.n_layers - m + 1) :
                     done \in {TrainSampleLayers(st, net, derivs, x, y, junk, m - 1)}})

\* Gym::train_sample: the network and the deriv buffer after it and l_i, or the panic
\* of NeuralNetwork::forward.
train_sample(net, derivs, x, y, junk) ==
    LET \* what follows self.nn.forward(x) when it returned r
        backward(r) ==
            Run({[nn |-> r.nn, deriv_buffer |-> [derivs EXCEPT !.buffer = st.deriv],
                  l_i |-> st.l_i] :
                    st \in {TrainSampleLayers([deriv |-> derivs.buffer, l_i |-> Zero],
                                              r.nn, derivs, x, y, junk, r.nn.n_layers)}})
    IN  Run({IF "panic" \in DOMAIN r THEN r ELSE backward(r) :
                r \in {NNForward(net, x, junk)}})

\* The floats of a network and of its deriv buffer that Gym::apply_derivs zips in
\* layer u: w with dw and b with db.
GymApplyPairs(net, derivs, u) ==
    LET nn_layer == RawLayer(net.storage, u)
        deriv_layer == get_layer_mut(derivs, u)
    IN  {<<MatIndex(nn_layer.w, k, g), MatIndex(deriv_layer.dw, k, g)>> :
             k \in 0 .. nn_layer.n - 1, g \in 0 .. nn_layer.n_previous - 1}
            \cup {<<ColIndex(nn_layer.b, k), ColIndex(deriv_layer.db, k)>> :
                     k \in 0 .. nn_layer.n - 1}

\* for u in 1..=self.nn.n_layers() of Gym::apply_derivs, the first m layers.
RECURSIVE GymApplyLoop(_, _, _, _, _, _)
GymApplyLoop(st, net, derivs, eta, n, m) ==
    LET \* one layer: *dw /= n; *w -= eta * (*dw); and the same for b
        body(done, u) ==
            Run({[deriv |-> deriv,
                  buffer |-> [i \in DOMAIN done.buffer |->
                                 IF \E p \in pairs : p[1] = i
                                 THEN FSub(done.buffer[i],
                                           FMul(eta, deriv[(CHOOSE p \in pairs : p[1] = i)[2]]))
                                 ELSE done.buffer[i]]] :
                    pairs \in {GymApplyPairs(net, derivs, u)},
                    deriv \in {[i \in DOMAIN done.deriv |->
                                   IF \E p \in GymApplyPairs(net, derivs, u) : p[2] = i
                                   THEN FDiv(done.deriv[i], n) ELSE done.deriv[i]]}})
    IN  IF m = 0 THEN st
        ELSE Run({body(done, m) :
                     done \in {GymApplyLoop(st, net, derivs, eta, n, m - 1)}})

\* Gym::apply_derivs
GymApplyDerivs(net, derivs, eta, n) ==
    Run({[nn |-> [net EXCEPT !.storage.buffer = st.buffer],
          deriv_buffer |-> [derivs EXCEPT !.buffer = st.deriv]] :
            st \in {GymApplyLoop([deriv |-> derivs.buffer, buffer |-> net.storage.buffer],
                                 net, derivs, eta, n, net.n_layers)}})

\* The assertions of train_ on a sample for CHECKED: <<>> when they hold and the
\* panic of the first that fails.
CheckedAsserts(net, x_i, y_i) ==
    LET assert_(cond, text) ==
            IF cond THEN <<>> ELSE <<[panic |-> TRUE, assertion |-> text]>>
        first == assert_(Len(x_i) = net.n_inputs, "x_i.len() == self.nn().n_inputs()")
    IN  IF first # <<>> THEN first
        ELSE assert_(Len(x_i) = net.n_outputs, "x_i.len() == self.nn().n_outputs()")

\* for &(x_i, y_i) in training_data of Gym::train_, the first m samples: the network,
\* the deriv buffer, the loss, the samples train_sample was entered with, and the
\* panic that ended the loop.
RECURSIVE TrainLoop(_, _, _, _, _, _)
TrainLoop(checked, net, derivs, training_data, junk, m) ==
    LET \* loss += self.train_sample(x_i, y_i)
        sample(done, x_i, y_i) ==
            Run({IF "panic" \in DOMAIN r
                 THEN [done EXCEPT !.panic = <<r>>, !.entered = Append(done.entered, m)]
                 ELSE [nn |-> r.nn, deriv_buffer |-> r.deriv_buffer,
                       loss |-> FAdd(done.loss, r.l_i),
                       entered |-> Append(done.entered, m), panic |-> <<>>] :
                    r \in {train_sample(done.nn, done.deriv_buffer, x_i, y_i, junk)}})
        \* the body of the loop for sample m, on what the iterations before have
        \* left (done)
        body(done) ==
            LET x_i == training_data[m][1]
                y_i == training_data[m][2]
                asserted == IF checked THEN CheckedAsserts(done.nn, x_i, y_i) ELSE <<>>
            IN  IF done.panic # <<>> THEN done
                ELSE IF asserted # <<>> THEN [done EXCEPT !.panic = asserted]
                ELSE sample(done, x_i, y_i)
    IN  IF m = 0
        THEN [nn |-> net, deriv_buffer |-> derivs, loss |-> Zero, entered |-> <<>>,
              panic |-> <<>>]
        ELSE Run({body(done) :
                     done \in {TrainLoop(checked, net, derivs, training_data, junk,
                                         m - 1)}})

\* Gym::train_::<CHECKED>: the loop, then self.apply_derivs(eta, n); loss / n
train_(checked, net, derivs, eta, training_data, junk) ==
    LET n == F(Len(training_data))
        apply(looped) ==
            IF looped.panic # <<>> THEN looped
            ELSE Run({[nn |-> applied.nn, deriv_buffer |-> applied.deriv_buffer,
                       loss |-> FDiv(looped.loss, n), entered |-> looped.entered,
                       panic |-> <<>>] :
                         applied \in {GymApplyDerivs(looped.nn, looped.deriv_buffer,
                                                     eta, n)}})
    IN  Run({apply(looped) :
                looped \in {TrainLoop(checked, net, derivs, training_data, junk,
                                      Len(training_data))}})

(***************************************************************************)
(* Inputs of the model.                                                    *)
(***************************************************************************)
\* The layer descriptions (n_neurons, phi) of the given sizes; the activation of
\* layer i under assignment pat alternates between the two functions.
Descs(sizes, pat) ==
    [i \in 1 .. Len(sizes) |->
        [n_neurons |-> sizes[i],
         phi |-> IF (pat + i) % 2 = 0 THEN "relu" ELSE "identity"]]

RECURSIVE SumSeq(_)
SumSeq(sizes) == IF sizes = <<>> THEN 0 ELSE sizes[1] + SumSeq(Tail(sizes))

\* The layer sizes, each at least lo, of minlen .. MaxLayers layers that with
\* n_inputs inputs make at most MaxUnits units.
SizeSeqs(n_inputs, lo, minlen) ==
    {sz \in UNION {[1 .. m -> lo .. MaxUnits] : m \in minlen .. MaxLayers} :
        n_inputs + SumSeq(sz) <= MaxUnits}

\* Every topology the constructors take: any number of layers, of any size.
LayoutTopologies ==
    UNION {{Topology(ni, Descs(sz, 0)) : sz \in SizeSeqs(ni, 0, 0)} : ni \in 1 .. MaxUnits}

\* The topologies the kernels are run on: at least one layer, every layer with at
\* least one neuron.
KernelTopologies(pat) ==
    UNION {{Topology(ni, Descs(sz, pat)) : sz \in SizeSeqs(ni, 1, 1)} : ni \in 1 .. MaxUnits}

\* The networks NeuralNetwork::forward is run on.
NetTopologies ==
    UNION {{Topology(ni, Descs(sz, 0)) :
               sz \in {q \in UNION {[1 .. m -> 1 .. MaxNetUnits] : m \in 1 .. MaxLayers} :
                           ni + SumSeq(q) <= MaxNetUnits}} :
           ni \in 1 .. MaxNetUnits}

\* Input and label vectors of length n.
XPattern(p, n) == [i \in 0 .. n - 1 |-> IF p = 0 THEN F(1 - (i % 3)) ELSE F((i % 2) + 1)]

\* The slice &[T] of a vector.
SliceOf(v, n) == [i \in 1 .. n |-> v[i - 1]]

\* What a read past the end of an allocation may find.
Garbage == {Zero, F(1)}

\* The sample (x, y) of pattern p.
SampleOf(p, n_inputs, n_outputs) ==
    <<XPattern(p, n_inputs),
      [k \in 0 .. n_outputs - 1 |-> IF p = 0 THEN F(k) ELSE F(2 * k - 1)]>>

\* Batches of 0 .. MaxSamples samples: the two samples in turn.  samples is any
\* IntoIterator, the empty one included.
Batches == {[j \in 1 .. m |-> (m + j) % 2] : m \in 0 .. MaxSamples}

\* What the random number generator of randomize may yield, float by float.
FillValues(seed) ==
    CASE seed = 0 -> <<F(1), F(-1), F(2), Rat(1, 2), Zero, F(-2), F(1)>>
      [] seed = 1 -> <<F(-1), F(2), F(1), F(1), Rat(-1, 2), F(1), Zero>>
      [] OTHER -> <<F(2), F(1), F(-1), Zero, F(1)>>

Fill(values, buffer) == [i \in DOMAIN buffer |-> values[(i % Len(values)) + 1]]

Etas == {Rat(1, 2)}

(***************************************************************************)
(* State.                                                                  *)
(***************************************************************************)
VARIABLES
    topology,       \* the Topology the buffers are created from
    param_buffer,   \* ParamBuffer  {layers, buffer}
    result_buffer,  \* ResultBuffer {layers, buffer}
    deriv_buffer,   \* DerivBuffer  {layers, da_start, buffer}
    nn,             \* NeuralNetwork {n_layers, n_inputs, n_outputs, storage}
    copy,           \* a second NeuralNetwork, loaded with the parameters of nn
    gym,            \* the train call in progress: orchestrator, workers, channel
    call,           \* the last call: its name, arguments and what it returned
    before,         \* the floats of the buffers when the last call began
    log,            \* the log of the last calculate_derivs
    steps           \* calls made so far

vars == <<topology, param_buffer, result_buffer, deriv_buffer, nn, copy, gym, call,
          before, log, steps>>

NotCreated == [none |-> TRUE]
IsBuffer(b) == "buffer" \in DOMAIN b
IsPanic(b) == "panic" \in DOMAIN b

\* panic is <<>> when the call returned and <<message>> when it panicked.
NoCall == [op |-> "none", x |-> <<>>, samples |-> <<>>, eta |-> Zero, loss |-> Zero,
           junk |-> Zero, output |-> <<>>, panic |-> <<>>]
NoGym == [none |-> TRUE]
NoLog == [order |-> <<>>, reads |-> <<>>]
Floats == [param |-> param_buffer.buffer, result |-> result_buffer.buffer,
           deriv |-> deriv_buffer.buffer]

NInputs == topology.n_inputs
NOutputs == topology.layer_descriptions[Len(topology.layer_descriptions)].n_neurons

(***************************************************************************)
(* The constructors, one buffer at a time.                                 *)
(***************************************************************************)
LayoutInit ==
    /\ topology \in LayoutTopologies
    /\ param_buffer = NotCreated
    /\ result_buffer = NotCreated
    /\ deriv_buffer = NotCreated
    /\ nn = NotCreated
    /\ copy = NotCreated
    /\ gym = NoGym
    /\ call = NoCall
    /\ before = <<>>
    /\ log = NoLog
    /\ steps = 0

CreateParamBuffer ==
    /\ ~IsBuffer(param_buffer) /\ ~IsPanic(param_buffer)
    /\ param_buffer' = ParamBufferCreate(topology)
    /\ UNCHANGED <<copy, gym, topology, nn, result_buffer, deriv_buffer, call, before, log, steps>>

CreateResultBuffer ==
    /\ ~IsBuffer(result_buffer) /\ ~IsPanic(result_buffer)
    /\ result_buffer' = ResultBufferCreate(topology)
    /\ UNCHANGED <<copy, gym, topology, nn, param_buffer, deriv_buffer, call, before, log, steps>>

CreateDerivBuffer ==
    /\ ~IsBuffer(deriv_buffer) /\ ~IsPanic(deriv_buffer)
    /\ deriv_buffer' = DerivBufferCreate(topology)
    /\ UNCHANGED <<copy, gym, topology, nn, param_buffer, result_buffer, call, before, log, steps>>

LayoutNext == CreateParamBuffer \/ CreateResultBuffer \/ CreateDerivBuffer

SpecLayout == LayoutInit /\ [][LayoutNext]_vars

(***************************************************************************)
(* The kernels on the three buffers of one topology.                       *)
(***************************************************************************)
Init ==
    /\ \E seed \in {0, 1} :
           /\ topology \in KernelTopologies(seed)
           /\ LET created == ParamBufferCreate(topology)
              IN  param_buffer =
                      [created EXCEPT !.buffer = Fill(FillValues(seed), created.buffer)]
    /\ result_buffer = ResultBufferCreate(topology)
    /\ deriv_buffer = DerivBufferCreate(topology)
    /\ nn = NotCreated
    /\ copy = NotCreated
    /\ gym = NoGym
    /\ call = NoCall
    /\ before = <<>>
    /\ log = NoLog
    /\ steps = 0

\* ParamBuffer::randomize
Randomize ==
    /\ steps < MaxSteps
    /\ param_buffer' = [param_buffer EXCEPT !.buffer = Fill(FillValues(2), @)]
    /\ call' = [NoCall EXCEPT !.op = "randomize"]
    /\ before' = Floats
    /\ log' = NoLog
    /\ steps' = steps + 1
    /\ UNCHANGED <<copy, gym, topology, nn, result_buffer, deriv_buffer>>

Forward ==
    /\ steps < MaxSteps
    /\ \E p \in {0, 1} :
           LET x == XPattern(p, NInputs)
           IN  /\ result_buffer' = forward_unchecked(x, param_buffer, result_buffer)
               /\ call' = [NoCall EXCEPT !.op = "forward", !.x = x]
    /\ before' = Floats
    /\ log' = NoLog
    /\ steps' = steps + 1
    /\ UNCHANGED <<copy, gym, topology, nn, param_buffer, deriv_buffer>>

CalculateDerivs ==
    /\ steps < MaxSteps
    /\ \E batch \in Batches :
           LET samples == [j \in 1 .. Len(batch) |-> SampleOf(batch[j], NInputs, NOutputs)]
               r == calculate_derivs(param_buffer, result_buffer, deriv_buffer, samples)
           IN  /\ result_buffer' = r.result_buffer
               /\ deriv_buffer' = r.deriv_buffer
               /\ call' = [NoCall EXCEPT !.op = "calculate_derivs", !.samples = samples,
                                         !.loss = r.loss]
               /\ log' = [order |-> r.order, reads |-> r.reads]
    /\ before' = Floats
    /\ steps' = steps + 1
    /\ UNCHANGED <<copy, gym, topology, nn, param_buffer>>

ApplyDerivs ==
    /\ steps < MaxSteps
    /\ \E eta \in Etas :
           /\ param_buffer' = apply_derivs(param_buffer, deriv_buffer, eta)
           /\ call' = [NoCall EXCEPT !.op = "apply_derivs", !.eta = eta]
    /\ before' = Floats
    /\ log' = NoLog
    /\ steps' = steps + 1
    /\ UNCHANGED <<copy, gym, topology, nn, result_buffer, deriv_buffer>>

Next == Randomize \/ Forward \/ CalculateDerivs \/ ApplyDerivs

Spec == Init /\ [][Next]_vars

(***************************************************************************)
(* The kernels on buffers that hold gradients: the buffers are as a        *)
(* calculate_derivs on a batch with samples has left them.                 *)
(***************************************************************************)
TrainedInit ==
    /\ \E seed \in {0, 1} :
           /\ topology \in KernelTopologies(seed)
           /\ LET created == ParamBufferCreate(topology)
              IN  param_buffer =
                      [created EXCEPT !.buffer = Fill(FillValues(seed), created.buffer)]
    /\ \E batch \in {b \in Batches : Len(b) > 0} :
           LET samples == [j \in 1 .. Len(batch) |-> SampleOf(batch[j], NInputs, NOutputs)]
               r == calculate_derivs(param_buffer, ResultBufferCreate(topology),
                                     DerivBufferCreate(topology), samples)
           IN  /\ result_buffer = r.result_buffer
               /\ deriv_buffer = r.deriv_buffer
               /\ call = [NoCall EXCEPT !.op = "calculate_derivs", !.samples = samples,
                                        !.loss = r.loss]
               /\ log = [order |-> r.order, reads |-> r.reads]
    /\ before = [param |-> param_buffer.buffer,
                 result |-> ResultBufferCreate(topology).buffer,
                 deriv |-> DerivBufferCreate(topology).buffer]
    /\ nn = NotCreated
    /\ copy = NotCreated
    /\ gym = NoGym
    /\ steps = 0

TrainedNext == Forward \/ CalculateDerivs \/ ApplyDerivs

SpecTrained == TrainedInit /\ [][TrainedNext]_vars

(***************************************************************************)
(* The calls on a NeuralNetwork.                                           *)
(***************************************************************************)
NetInit ==
    /\ topology \in NetTopologies
    /\ param_buffer = NotCreated
    /\ result_buffer = NotCreated
    /\ deriv_buffer = NotCreated
    /\ nn = NeuralNetworkNewIn(topology.n_inputs, topology.layer_descriptions)
    /\ copy = NotCreated
    /\ gym = NoGym
    /\ call = NoCall
    /\ before = <<>>
    /\ log = NoLog
    /\ steps = 0

\* The lengths other than n that slices are passed with: one less, one more.
WrongLengths(n) == {m \in {n - 1, n + 1} : m >= 0}

\* NeuralNetwork::load_params, called with buffers of the right length (two of
\* them) and of each wrong length.
NetLoadParams ==
    /\ steps < MaxNetCalls
    /\ \E arg \in {[seed |-> seed, len |-> nn.storage.za_start] : seed \in {0, 1}}
                    \cup {[seed |-> 0, len |-> m] : m \in WrongLengths(nn.storage.za_start)} :
           LET values == FillValues(arg.seed)
               len == arg.len
               buffer == [i \in 1 .. len |-> values[((i - 1) % Len(values)) + 1]]
               r == LoadParams(nn.storage, buffer)
           IN  /\ nn' = [nn EXCEPT !.storage = r.storage]
               /\ call' = [NoCall EXCEPT !.op = "load_params", !.x = buffer,
                                         !.output = <<r.result>>]
    /\ before' = [net |-> nn.storage.buffer]
    /\ steps' = steps + 1
    /\ UNCHANGED <<copy, gym, topology, param_buffer, result_buffer, deriv_buffer, log>>

\* NeuralNetwork::forward, called with inputs of the right length, with what a read
\* past the allocation finds, and with inputs of each wrong length.
NetForward ==
    /\ steps < MaxNetCalls
    /\ \E arg \in {[p |-> p, junk |-> junk, len |-> nn.n_inputs] :
                        p \in {0, 1}, junk \in Garbage}
                    \cup {[p |-> 0, junk |-> Zero, len |-> m] :
                             m \in WrongLengths(nn.n_inputs)} :
           LET x == SliceOf(XPattern(arg.p, arg.len), arg.len)
               junk == arg.junk
               r == NNForward(nn, x, junk)
           IN  IF IsPanic(r)
               THEN /\ nn' = nn
                    /\ call' = [NoCall EXCEPT !.op = "forward", !.x = x, !.junk = junk,
                                              !.panic = <<r>>]
               ELSE /\ nn' = r.nn
                    /\ call' = [NoCall EXCEPT !.op = "forward", !.x = x, !.junk = junk,
                                              !.output = r.output]
    /\ before' = [net |-> nn.storage.buffer]
    /\ steps' = steps + 1
    /\ UNCHANGED <<copy, gym, topology, param_buffer, result_buffer, deriv_buffer, log>>

\* The parameter round trip: params_buffer() of the network is loaded with
\* load_params into a network just constructed of the same topology, and forward is
\* called on both with the same input.  copy holds the second network, the Result of
\* its load_params and what its forward returned.
NetRoundTrip ==
    /\ steps < MaxNetCalls
    /\ \E p \in {0, 1}, junk \in Garbage, junk_copy \in Garbage :
           LET dumped == params_buffer(nn.storage)
               fresh == NeuralNetworkNewIn(topology.n_inputs, topology.layer_descriptions)
               loaded == LoadParams(fresh.storage, dumped)
               x == SliceOf(XPattern(p, nn.n_inputs), nn.n_inputs)
               r == NNForward(nn, x, junk)
               r_copy == NNForward([fresh EXCEPT !.storage = loaded.storage], x,
                                   junk_copy)
           IN  /\ nn' = r.nn
               /\ copy' = [nn |-> r_copy.nn, loaded |-> loaded.result,
                           output |-> r_copy.output]
               /\ call' = [NoCall EXCEPT !.op = "round_trip", !.x = x, !.junk = junk,
                                         !.output = r.output]
    /\ before' = [net |-> nn.storage.buffer]
    /\ steps' = steps + 1
    /\ UNCHANGED <<gym, topology, param_buffer, result_buffer, deriv_buffer, log>>

NetNext == NetLoadParams \/ NetForward \/ NetRoundTrip

SpecNN == NetInit /\ [][NetNext]_vars

\* load_params and forward alone.
NetCallsNext == NetLoadParams \/ NetForward

SpecNNCalls == NetInit /\ [][NetCallsNext]_vars

(***************************************************************************)
(* The calls on the Gym of a NeuralNetwork (gym.rs): nn is the network the *)
(* Gym borrows and deriv_buffer its NeuralNetworkDerivs.                   *)
(***************************************************************************)
MaxNetGymUnits == 3     \* inputs plus neurons of the network of a Gym
MaxNetGymCalls == 2     \* train calls made on a Gym

\* The sample (&[f32], &[f32]) of pattern p with x of n_x floats and y of n_y.
SlicesOf(p, n_x, n_y) ==
    LET xy == SampleOf(p, n_x, n_y)
    IN  <<SliceOf(xy[1], n_x), SliceOf(xy[2], n_y)>>

\* Batches in which every sample has n_inputs and n_outputs floats.
SizedBatches(n_inputs, n_outputs) ==
    {[j \in 1 .. m |-> SlicesOf((m + j) % 2, n_inputs, n_outputs)] : m \in 0 .. MaxSamples}

\* A network, of at most MaxNetGymUnits units, with the parameters a load_params
\* left, and the Gym of go_to_gym.
NetGymInit ==
    /\ topology \in
           UNION {{Topology(ni, Descs(sz, 0)) :
                      sz \in {q \in UNION {[1 .. m -> 1 .. MaxNetGymUnits] :
                                              m \in 1 .. MaxLayers} :
                                  ni + SumSeq(q) <= MaxNetGymUnits}} :
                  ni \in 1 .. MaxNetGymUnits}
    /\ param_buffer = NotCreated
    /\ result_buffer = NotCreated
    /\ \E seed \in {0, 1} :
           LET net == NeuralNetworkNewIn(topology.n_inputs, topology.layer_descriptions)
               values == FillValues(seed)
               buffer == [i \in 1 .. net.storage.za_start |->
                             values[((i - 1) % Len(values)) + 1]]
           IN  nn = [net EXCEPT !.storage = LoadParams(net.storage, buffer).storage]
    /\ deriv_buffer = go_to_gym(nn)
    /\ copy = NotCreated
    /\ gym = [entered |-> <<>>]
    /\ call = NoCall
    /\ before = <<>>
    /\ log = NoLog
    /\ steps = 0

\* Gym::train, called with the batches in which every sample has n_inputs and
\* n_outputs floats and with those in which one sample has an x or a y of another
\* length.  A call leaves the network and the deriv buffer as they are when it
\* returns or panics; gym holds the samples train_sample was entered with.
NetGymTrain ==
    /\ steps < MaxNetGymCalls
    /\ \E eta \in Etas, junk \in Garbage,
          training_data \in
              SizedBatches(nn.n_inputs, nn.n_outputs)
                  \cup {[j \in 1 .. m |->
                            IF j = at THEN SlicesOf((m + j) % 2, n_x, n_y)
                            ELSE SlicesOf((m + j) % 2, nn.n_inputs, nn.n_outputs)] :
                           m \in 1 .. MaxSamples, at \in 1 .. MaxSamples,
                           n_x \in {nn.n_inputs} \cup WrongLengths(nn.n_inputs),
                           n_y \in {nn.n_outputs} \cup WrongLengths(nn.n_outputs)} :
           LET r == train_(TRUE, nn, deriv_buffer, eta, training_data, junk)
           IN  /\ nn' = r.nn
               /\ deriv_buffer' = r.deriv_buffer
               /\ gym' = [entered |-> r.entered]
               /\ call' = [NoCall EXCEPT !.op = "train", !.eta = eta,
                                         !.samples = training_data, !.junk = junk,
                                         !.loss = r.loss, !.panic = r.panic]
    /\ before' = [net |-> nn.storage.buffer, deriv |-> deriv_buffer.buffer]
    /\ steps' = steps + 1
    /\ UNCHANGED <<topology, param_buffer, result_buffer, copy, log>>

\* Gym::train_unchecked, called as its safety section requires.
NetGymTrainUnchecked ==
    /\ steps < MaxNetGymCalls
    /\ \E eta \in Etas, junk \in Garbage,
          training_data \in SizedBatches(nn.n_inputs, nn.n_outputs) :
           LET r == train_(FALSE, nn, deriv_buffer, eta, training_data, junk)
           IN  /\ nn' = r.nn
               /\ deriv_buffer' = r.deriv_buffer
               /\ gym' = [entered |-> r.entered]
               /\ call' = [NoCall EXCEPT !.op = "train_unchecked", !.eta = eta,
                                         !.samples = training_data, !.junk = junk,
                                         !.loss = r.loss, !.panic = r.panic]
    /\ before' = [net |-> nn.storage.buffer, deriv |-> deriv_buffer.buffer]
    /\ steps' = steps + 1
    /\ UNCHANGED <<topology, param_buffer, result_buffer, copy, log>>

NetGymNext == NetGymTrain \/ NetGymTrainUnchecked

SpecNetGym == NetGymInit /\ [][NetGymNext]_vars

(***************************************************************************)
(* The accessors of the layers, on the three buffers of a topology.        *)
(***************************************************************************)
BufferOf(kind) ==
    CASE kind = "param" -> param_buffer
      [] kind = "result" -> result_buffer
      [] kind = "deriv" -> deriv_buffer

\* The three buffers of a topology the constructors make buffers of.
AccessInit ==
    /\ topology \in {t \in LayoutTopologies : IsBuffer(ParamBufferCreate(t))}
    /\ \E seed \in {0, 1} :
           LET created == ParamBufferCreate(topology)
           IN  param_buffer =
                   [created EXCEPT !.buffer = Fill(FillValues(seed), created.buffer)]
    /\ result_buffer = ResultBufferCreate(topology)
    /\ deriv_buffer = DerivBufferCreate(topology)
    /\ nn = NotCreated
    /\ copy = NotCreated
    /\ gym = NoGym
    /\ call = NoCall
    /\ before = <<>>
    /\ log = NoLog
    /\ steps = 0

\* The accessors are called on each of the three buffers with the indices of the
\* layers and with indices past them.
LayerCall ==
    /\ \E kind \in {"param", "result", "deriv"}, index \in 0 .. MaxLayers :
           call' = [NoCall EXCEPT !.op = "layer", !.x = <<kind, index>>,
                                  !.output = layer(BufferOf(kind), index)]
    /\ before' = Floats
    /\ UNCHANGED <<copy, gym, topology, param_buffer, result_buffer, deriv_buffer, nn, log, steps>>

LayerMutCall ==
    /\ \E kind \in {"param", "result", "deriv"}, index \in 0 .. MaxLayers :
           call' = [NoCall EXCEPT !.op = "layer_mut", !.x = <<kind, index>>,
                                  !.output = layer_mut(BufferOf(kind), index)]
    /\ before' = Floats
    /\ UNCHANGED <<copy, gym, topology, param_buffer, result_buffer, deriv_buffer, nn, log, steps>>

\* layer_disjoint_mut, called with the arrays [usize; N], N in 0 .. 2.
LayerDisjointMutCall ==
    /\ \E kind \in {"param", "result", "deriv"},
          indices \in UNION {[1 .. n -> 0 .. MaxLayers] : n \in 0 .. 2} :
           call' = [NoCall EXCEPT !.op = "layer_disjoint_mut", !.x = <<kind, indices>>,
                                  !.output = layer_disjoint_mut(BufferOf(kind), indices)]
    /\ before' = Floats
    /\ UNCHANGED <<copy, gym, topology, param_buffer, result_buffer, deriv_buffer, nn, log, steps>>

AccessNext == LayerCall \/ LayerMutCall \/ LayerDisjointMutCall

SpecAccess == AccessInit /\ [][AccessNext]_vars

(***************************************************************************)
(* What the claims are stated with.                                        *)
(***************************************************************************)
\* The sum of f[0] .. f[n - 1].
RECURSIVE Sigma(_, _)
Sigma(f, n) == IF n = 0 THEN Zero ELSE FAdd(Sigma(f, n - 1), f[n - 1])

RECURSIVE SumNat(_, _)
SumNat(f, n) == IF n = 0 THEN 0 ELSE SumNat(f, n - 1) + f[n]

MatKinds == {"w", "dw"}
ColKinds == {"b", "db", "da", "z", "a"}

\* The regions of a buffer: for every layer and every view of it, the indices the
\* view covers and the size the layout gives the region.
Regions(buf) ==
    UNION {{[u |-> u, kind |-> f,
             cells |-> IF f \in MatKinds THEN MatRegion(buf.layers[u][f])
                       ELSE ColRegion(buf.layers[u][f]),
             size |-> IF f \in MatKinds THEN buf.layers[u].n * buf.layers[u].n_previous
                      ELSE buf.layers[u].n] :
            f \in (DOMAIN buf.layers[u]) \cap (MatKinds \cup ColKinds)} :
           u \in 1 .. Len(buf.layers)}

RECURSIVE SumSizes(_)
SumSizes(regions) ==
    IF regions = {} THEN 0
    ELSE LET r == CHOOSE r \in regions : TRUE
         IN  r.size + SumSizes(regions \ {r})

\* The length is the sum of the region sizes, every region lies inside the buffer
\* and has the cells its size says, and no two regions share a cell.
RegionsPartition(buf) ==
    /\ Cardinality(DOMAIN buf.buffer) = SumSizes(Regions(buf))
    /\ \A r \in Regions(buf) :
           r.cells \subseteq DOMAIN buf.buffer /\ Cardinality(r.cells) = r.size
    /\ \A r1, r2 \in Regions(buf) : r1 # r2 => r1.cells \cap r2.cells = {}

\* The weight and bias views of a layer (w, b or dw, db).
OffsetKinds(buf, u) == (DOMAIN buf.layers[u]) \cap {"w", "b", "dw", "db"}

OffsetsStrictlyIncrease(buf) ==
    \A u, v \in 1 .. Len(buf.layers) : u < v =>
        \A f \in OffsetKinds(buf, u) : buf.layers[u][f].ptr < buf.layers[v][f].ptr

\* The offsets never decrease, and increase past every layer that has a neuron.
OffsetsIncreasePastNeurons(buf) ==
    \A u, v \in 1 .. Len(buf.layers) : u < v =>
        \A f \in OffsetKinds(buf, u) :
            /\ buf.layers[u][f].ptr <= buf.layers[v][f].ptr
            /\ buf.layers[u].n >= 1 => buf.layers[u][f].ptr < buf.layers[v][f].ptr

Created == {b \in {param_buffer, result_buffer, deriv_buffer} : b # NotCreated}

HasLayers == Len(topology.layer_descriptions) >= 1
HasNeurons == \E i \in DOMAIN topology.layer_descriptions :
                  topology.layer_descriptions[i].n_neurons >= 1

(***************************************************************************)
(* C1 as it is stated: for every topology with at least one layer each of  *)
(* the three constructors yields a buffer whose length is the sum of its   *)
(* region sizes, with every region inside the buffer, no two regions       *)
(* overlapping and the weight and bias offsets strictly increasing with    *)
(* the layer index.                                                        *)
(***************************************************************************)
C1_AsClaimed ==
    HasLayers =>
        \A b \in Created :
            IsBuffer(b) /\ RegionsPartition(b) /\ OffsetsStrictlyIncrease(b)

(***************************************************************************)
(* C1: for every topology with at least one layer of which at least one    *)
(* has a neuron, each of the three constructors yields a buffer whose      *)
(* length is the sum of its region sizes, with every region inside the     *)
(* buffer and no two regions overlapping; the weight and bias offsets      *)
(* never decrease with the layer index and strictly increase past every    *)
(* layer that has a neuron.  When no layer has a neuron the constructors   *)
(* panic on their float count of zero.                                     *)
(***************************************************************************)
C1_Layout ==
    HasLayers =>
        \A b \in Created :
            /\ IsBuffer(b) <=> HasNeurons
            /\ IsPanic(b) <=> ~HasNeurons
            /\ IsBuffer(b) => RegionsPartition(b) /\ OffsetsIncreasePastNeurons(b)

\* The three buffers of a topology of two layers, the first of them without a neuron.
C1_Witness ==
    /\ IsBuffer(param_buffer) /\ IsBuffer(result_buffer) /\ IsBuffer(deriv_buffer)
    /\ Len(topology.layer_descriptions) = 2
    /\ topology.layer_descriptions[1].n_neurons = 0
    /\ topology.layer_descriptions[2].n_neurons = 2

\* The layers of the topology, and the neurons of layer u (layer 0: the inputs).
L == Len(topology.layer_descriptions)
N(u) == IF u = 0 THEN topology.n_inputs ELSE topology.layer_descriptions[u].n_neurons

IsZeroed(floats) == \A i \in DOMAIN floats : floats[i] = Zero

(***************************************************************************)
(* C2: the param, result and deriv buffers of a topology have as many      *)
(* layers as the topology and, layer by layer, the same (n, n_previous),   *)
(* n_previous being n_inputs for the first layer and the n of the layer    *)
(* before for every other; in every state that randomize, forward,         *)
(* calculate_derivs and apply_derivs lead to, the dimensions and the       *)
(* region offsets are those the buffers were created with.                 *)
(***************************************************************************)
C2_SameDimensions ==
    /\ \A b \in {param_buffer, result_buffer, deriv_buffer} :
           /\ NLayers(b) = L
           /\ \A u \in 1 .. L :
                  /\ b.layers[u].n = N(u)
                  /\ b.layers[u].n_previous = N(u - 1)
    /\ param_buffer.layers = ParamBufferCreate(topology).layers
    /\ result_buffer.layers = ResultBufferCreate(topology).layers
    /\ deriv_buffer.layers = DerivBufferCreate(topology).layers

\* apply_derivs after a calculate_derivs, on two layers of different widths.
C2_Witness ==
    /\ call.op = "apply_derivs"
    /\ ~IsZeroed(before.deriv)
    /\ L = 2
    /\ N(0) # N(1)

\* Layer u (from 1) as its views show it: W_u[k][g], b_u[k], z_u[k], a_u[k], phi_u.
W(u, k, g) == param_buffer.buffer[MatIndex(param_buffer.layers[u].w, k, g)]
B(u, k) == param_buffer.buffer[ColIndex(param_buffer.layers[u].b, k)]
Z(u, k) == result_buffer.buffer[ColIndex(result_buffer.layers[u].z, k)]
A(u, k) == result_buffer.buffer[ColIndex(result_buffer.layers[u].a, k)]
Phi(u) == param_buffer.layers[u].phi

(***************************************************************************)
(* C3: after forward_unchecked on an input x of length n_inputs, every     *)
(* layer u holds z_u[k] = sum over g of W_u[k][g] * a_{u-1}[g] + b_u[k]    *)
(* and a_u[k] = phi_u.apply(z_u[k]) for every neuron k, a_0 being x and    *)
(* a_{u-1} the activation this call wrote for the layer before.            *)
(***************************************************************************)
C3_Forward ==
    call.op = "forward" =>
        \A u \in 1 .. L : \A k \in 0 .. N(u) - 1 :
            LET a_prev == [g \in 0 .. N(u - 1) - 1 |->
                              IF u = 1 THEN call.x[g] ELSE A(u - 1, g)]
                products == [g \in 0 .. N(u - 1) - 1 |-> FMul(W(u, k, g), a_prev[g])]
            IN  /\ Z(u, k) = FAdd(Sigma(products, N(u - 1)), B(u, k))
                /\ A(u, k) = PhiApply(Phi(u), Z(u, k))

\* A forward on two layers over the results of an earlier call, with an output
\* that is not zero.
C3_Witness ==
    /\ call.op = "forward"
    /\ L = 2
    /\ ~IsZeroed(before.result)
    /\ \E k \in 0 .. N(L) - 1 : A(L, k) # Zero

\* Layer u (from 1) of the NeuralNetwork as get_w, get_b, get_z and get_a show it.
NetW(u, k, g) == nn.storage.buffer[MatIndex(RawLayer(nn.storage, u).w, k, g)]
NetB(u, k) == nn.storage.buffer[ColIndex(RawLayer(nn.storage, u).b, k)]
NetZ(u, k) == nn.storage.buffer[ColIndex(RawLayer(nn.storage, u).z, k)]
NetA(u, k) == nn.storage.buffer[ColIndex(RawLayer(nn.storage, u).a, k)]

(***************************************************************************)
(* C4 as it is stated: after NeuralNetwork::forward on an input x of       *)
(* length n_inputs, every layer u holds z_u[k] = sum over g in             *)
(* 0..n_previous of W_u[k][g] * a_{u-1}[g] + b_u[k] and a_u[k] =           *)
(* phi_u(z_u[k]), W_u[k][g] being the element get_w(u) shows at row k,     *)
(* column g, and the vector returned is the activation of the last layer.  *)
(***************************************************************************)
C4_AsClaimed ==
    (call.op = "forward" /\ Len(call.x) = nn.n_inputs) =>
        /\ \A u \in 1 .. nn.n_layers : \A k \in 0 .. N(u) - 1 :
               LET a_prev == [g \in 0 .. N(u - 1) - 1 |->
                                 IF u = 1 THEN call.x[g + 1] ELSE NetA(u - 1, g)]
                   products == [g \in 0 .. N(u - 1) - 1 |->
                                   FMul(NetW(u, k, g), a_prev[g])]
               IN  /\ NetZ(u, k) = FAdd(Sigma(products, N(u - 1)), NetB(u, k))
                   /\ NetA(u, k) = PhiApply(RawLayer(nn.storage, u).phi, NetZ(u, k))
        /\ call.output = [k \in 0 .. N(L) - 1 |-> NetA(L, k)]

\* Two inputs and one neuron with W = (1, -1), b = 2 and the identity, on x = (1, 2):
\* z is b * x[1] + b = 6, where W x + b = 1.
C4_FailingInput ==
    /\ call.op = "forward"
    /\ N(0) = 2 /\ L = 1 /\ N(1) = 1
    /\ call.x = <<F(1), F(2)>>
    /\ NetW(1, 0, 0) = F(1) /\ NetW(1, 0, 1) = F(-1) /\ NetB(1, 0) = F(2)
    /\ NetZ(1, 0) = F(6)
    /\ call.output = [k \in {0} |-> F(6)]

\* The buffer of the network with z and a of every layer zeroed.
FreshResults(storage) ==
    [i \in DOMAIN storage.buffer |->
        IF i < storage.za_start THEN storage.buffer[i] ELSE Zero]

(***************************************************************************)
(* C5 as it is stated, for NeuralNetwork::forward: after a forward with    *)
(* parameters P and input x, whatever calls came before, every z_u and a_u *)
(* and the vector returned are those of a forward with the same P and x on *)
(* freshly zeroed results.                                                 *)
(***************************************************************************)
C5_AsClaimed ==
    (call.op = "forward" /\ Len(call.x) = nn.n_inputs) =>
        LET fresh == NNForward([nn EXCEPT !.storage.buffer = FreshResults(nn.storage)],
                               call.x, call.junk)
        IN  /\ nn.storage.buffer = fresh.nn.storage.buffer
            /\ call.output = fresh.output

\* Four inputs and two neurons with b = (-1, 2) and the identity, on x = (1, 2, 1, 2),
\* twice: the first forward leaves a = (-1, 2), the second reads that a as weights
\* and leaves a = a * x[3] + b = (-3, 6).
C5_FailingInput ==
    /\ call.op = "forward"
    /\ N(0) = 4 /\ L = 1 /\ N(1) = 2
    /\ call.x = <<F(1), F(2), F(1), F(2)>>
    /\ NetB(1, 0) = F(-1) /\ NetB(1, 1) = F(2)
    /\ before.net[ColIndex(RawLayer(nn.storage, 1).a, 0)] = F(-1)
    /\ before.net[ColIndex(RawLayer(nn.storage, 1).a, 1)] = F(2)
    /\ call.output = [k \in {0, 1} |-> IF k = 0 THEN F(-3) ELSE F(6)]

\* The gradients of layer u (from 1) as the views of the deriv buffer show them.
Dw(u, k, g) == deriv_buffer.buffer[MatIndex(deriv_buffer.layers[u].dw, k, g)]
Db(u, k) == deriv_buffer.buffer[ColIndex(deriv_buffer.layers[u].db, k)]

\* The forward pass of a sample on the parameters: z_u and a_u of input x, a_0 = x.
RECURSIVE PassA(_, _)
PassZ(x, u) ==
    LET a_prev == PassA(x, u - 1)
    IN  [k \in 0 .. N(u) - 1 |->
            FAdd(Sigma([g \in 0 .. N(u - 1) - 1 |-> FMul(W(u, k, g), a_prev[g])],
                       N(u - 1)),
                 B(u, k))]

PassA(x, u) ==
    IF u = 0 THEN x
    ELSE LET z == PassZ(x, u)
         IN  [k \in 0 .. N(u) - 1 |-> PhiApply(Phi(u), z[k])]

\* The error terms of a sample <<x, y>>: e_k of layer u, and e_k * phi_u'(z_u[k]).
RECURSIVE PassE(_, _, _)
PassDelta(x, y, u) ==
    LET e == PassE(x, y, u)
        z == PassZ(x, u)
    IN  [k \in 0 .. N(u) - 1 |-> FMul(e[k], PhiDeriv(Phi(u), z[k]))]

PassE(x, y, u) ==
    IF u = L
    THEN LET a == PassA(x, L)
         IN  [k \in 0 .. N(L) - 1 |-> FSub(a[k], y[k])]
    ELSE LET above == PassDelta(x, y, u + 1)
         IN  [k \in 0 .. N(u) - 1 |->
                 Sigma([j \in 0 .. N(u + 1) - 1 |-> FMul(above[j], W(u + 1, j, k))],
                       N(u + 1))]

\* The samples of the last calculate_derivs.
NSamples == Len(call.samples)
X(i) == call.samples[i][1]
Y(i) == call.samples[i][2]
OverSamples(n) == FDiv(F(1), F(n))

(***************************************************************************)
(* C6: calculate_derivs over a batch of n >= 1 samples leaves, for every   *)
(* layer u, neuron k and input g, db_u[k] = (1/n) * sum over the samples   *)
(* of e_k * phi_u'(z_u[k]) and dw_u[k][g] = (1/n) * sum over the samples   *)
(* of e_k * phi_u'(z_u[k]) * a_{u-1}[g], with e_k = a_k - y_k on the       *)
(* output layer and e_k = sum over k' of e_k' * phi_{u+1}'(z_{u+1}[k']) *  *)
(* W_{u+1}[k'][k] on the others, z and a being those of a forward pass of  *)
(* the sample on the parameters.                                           *)
(***************************************************************************)
C6_Derivs ==
    (call.op = "calculate_derivs" /\ NSamples >= 1) =>
        \A u \in 1 .. L : \A k \in 0 .. N(u) - 1 :
            /\ Db(u, k) =
                   FMul(OverSamples(NSamples),
                        Sigma([i \in 0 .. NSamples - 1 |->
                                  PassDelta(X(i + 1), Y(i + 1), u)[k]], NSamples))
            /\ \A g \in 0 .. N(u - 1) - 1 :
                   Dw(u, k, g) =
                       FMul(OverSamples(NSamples),
                            Sigma([i \in 0 .. NSamples - 1 |->
                                      FMul(PassDelta(X(i + 1), Y(i + 1), u)[k],
                                           PassA(X(i + 1), u - 1)[g])], NSamples))

\* A calculate_derivs over two samples on two layers that leaves gradients in both.
C6_Witness ==
    /\ call.op = "calculate_derivs"
    /\ NSamples = 2
    /\ L = 2
    /\ \E k \in 0 .. N(1) - 1, g \in 0 .. N(0) - 1 : Dw(1, k, g) # Zero
    /\ \E k \in 0 .. N(2) - 1 : Db(2, k) # Zero

\* The dw/db of a calculate_derivs over sample i alone, on buffers just created.
AloneDerivs(i) ==
    calculate_derivs(param_buffer, ResultBufferCreate(topology),
                     DerivBufferCreate(topology), <<call.samples[i]>>).deriv_buffer.buffer

\* The sum, index by index, of the dw/db of the first n samples taken alone.
RECURSIVE SumAlone(_)
SumAlone(n) ==
    IF n = 0 THEN [j \in 0 .. deriv_buffer.da_start - 1 |-> Zero]
    ELSE LET done == SumAlone(n - 1)
             alone == AloneDerivs(n)
         IN  [j \in 0 .. deriv_buffer.da_start - 1 |-> FAdd(done[j], alone[j])]

(***************************************************************************)
(* C7: the dw/db a calculate_derivs leaves are the average, over the       *)
(* samples of the call, of the dw/db of each sample taken alone on buffers *)
(* just created: the accumulators are zeroed at the start of the call, not *)
(* between samples, and what the deriv buffer held before the call (after  *)
(* any earlier calculate_derivs and apply_derivs) has no part in them.     *)
(***************************************************************************)
C7_ZeroedOncePerCall ==
    (call.op = "calculate_derivs" /\ NSamples >= 1) =>
        LET total == SumAlone(NSamples)
        IN  \A j \in 0 .. deriv_buffer.da_start - 1 :
                deriv_buffer.buffer[j] = FMul(OverSamples(NSamples), total[j])

\* A calculate_derivs over two samples on a deriv buffer that held gradients, of
\* which the call leaves other ones.
C7_Witness ==
    /\ call.op = "calculate_derivs"
    /\ NSamples = 2
    /\ \E j \in 0 .. deriv_buffer.da_start - 1 :
           before.deriv[j] # Zero /\ deriv_buffer.buffer[j] # before.deriv[j]

(***************************************************************************)
(* C8: in the backward pass of every sample the layers are taken in        *)
(* strictly decreasing order; every non-output layer u reads da_u[k] once  *)
(* per neuron, and what it reads was zeroed in the pass of the same        *)
(* sample, has since received one term from every neuron of layer u+1, and *)
(* is the sum over the neurons k' of layer u+1 of e_k' *                   *)
(* phi_{u+1}'(z_{u+1}[k']) * W_{u+1}[k'][k] of that sample alone.          *)
(***************************************************************************)
C8_BackwardPass ==
    call.op = "calculate_derivs" =>
        /\ log.order = [j \in 1 .. NSamples * L |->
                           <<((j - 1) \div L) + 1, L - 1 - ((j - 1) % L)>>]
        /\ Len(log.reads) = NSamples * SumNat([u \in 1 .. L - 1 |-> N(u)], L - 1)
        /\ \A j \in 1 .. Len(log.reads) :
               LET r == log.reads[j]
                   lu == r.u + 1
               IN  /\ lu < L
                   /\ r.zeroed = r.sample
                   /\ r.adds = N(lu + 1)
                   /\ r.value = PassE(X(r.sample), Y(r.sample), lu)[r.k]

\* Two samples through two layers: the second sample reads a da that is not zero
\* and differs from what the first sample read there.
C8_Witness ==
    /\ call.op = "calculate_derivs"
    /\ NSamples = 2
    /\ L = 2
    /\ \E i, j \in 1 .. Len(log.reads) :
           /\ log.reads[i].sample = 1 /\ log.reads[j].sample = 2
           /\ log.reads[i].k = log.reads[j].k
           /\ log.reads[i].value # Zero
           /\ log.reads[j].value # Zero
           /\ log.reads[i].value # log.reads[j].value

(***************************************************************************)
(* C9: calculate_derivs returns total_loss / n, n being the number of      *)
(* samples and total_loss the sum over the samples and the output neurons  *)
(* k of (a_k - y_k)^2, a being the output of a forward pass of the sample  *)
(* on the parameters.                                                      *)
(***************************************************************************)
C9_Loss ==
    (call.op = "calculate_derivs" /\ NSamples >= 1) =>
        call.loss =
            FDiv(Sigma([i \in 0 .. NSamples - 1 |->
                           Sigma([k \in 0 .. N(L) - 1 |->
                                     Powi2(FSub(PassA(X(i + 1), L)[k], Y(i + 1)[k]))],
                                 N(L))],
                       NSamples),
                 F(NSamples))

\* A calculate_derivs over two samples that returns a loss that is not zero.
C9_Witness ==
    /\ call.op = "calculate_derivs"
    /\ NSamples = 2
    /\ call.loss # Zero

(***************************************************************************)
(* C10: apply_derivs(param_buffer, deriv_buffer, eta) leaves every weight  *)
(* W_u[k][g] at its value before the call minus eta * dw_u[k][g] and every *)
(* bias b_u[k] at its value before the call minus eta * db_u[k], and the   *)
(* param buffer has no float besides these.                                *)
(***************************************************************************)
C10_ApplyDerivs ==
    call.op = "apply_derivs" =>
        /\ \A u \in 1 .. L : \A k \in 0 .. N(u) - 1 :
               /\ B(u, k) = FSub(before.param[ColIndex(param_buffer.layers[u].b, k)],
                                 FMul(call.eta, Db(u, k)))
               /\ \A g \in 0 .. N(u - 1) - 1 :
                      W(u, k, g) =
                          FSub(before.param[MatIndex(param_buffer.layers[u].w, k, g)],
                               FMul(call.eta, Dw(u, k, g)))
        /\ DOMAIN param_buffer.buffer = DOMAIN before.param
        /\ DOMAIN param_buffer.buffer =
               UNION {MatRegion(param_buffer.layers[u].w)
                          \cup ColRegion(param_buffer.layers[u].b) : u \in 1 .. L}

\* An apply_derivs on two layers that moves a weight of the first and a bias of
\* the second.
C10_Witness ==
    /\ call.op = "apply_derivs"
    /\ L = 2
    /\ \E k \in 0 .. N(1) - 1, g \in 0 .. N(0) - 1 :
           W(1, k, g) # before.param[MatIndex(param_buffer.layers[1].w, k, g)]
    /\ \E k \in 0 .. N(2) - 1 :
           B(2, k) # before.param[ColIndex(param_buffer.layers[2].b, k)]

\* The offsets of the weights and of the biases of layer u (from 1) in a buffer that
\* holds W_1, b_1, W_2, b_2, ... one after the other.
OffsetW(u) == SumNat([v \in 1 .. u - 1 |-> N(v) * N(v - 1) + N(v)], u - 1)
OffsetB(u) == OffsetW(u) + N(u) * N(u - 1)

\* W_u, b_u in turn for the first n layers, W_u taken row by row (RowMajor) or
\* column by column, every element as the views of the param buffer show it.
RECURSIVE ParamsInOrder(_, _)
ParamsInOrder(row_major, n) ==
    IF n = 0 THEN <<>>
    ELSE LET u == n
             w == [i \in 1 .. N(u) * N(u - 1) |->
                      IF row_major
                      THEN W(u, (i - 1) \div N(u - 1), (i - 1) % N(u - 1))
                      ELSE W(u, (i - 1) % N(u), (i - 1) \div N(u))]
             b == [i \in 1 .. N(u) |-> B(u, i - 1)]
         IN  ParamsInOrder(row_major, n - 1) \o w \o b

(***************************************************************************)
(* C11 as it is stated: W_u[k][g] is the float at index offset_w(u) + k *  *)
(* n_{u-1} + g of the parameter buffer, and as_slice is W_1, b_1, W_2,     *)
(* b_2, ... in layer order with each W row by row.                         *)
(***************************************************************************)
C11_AsClaimed ==
    /\ \A u \in 1 .. L : \A k \in 0 .. N(u) - 1 : \A g \in 0 .. N(u - 1) - 1 :
           MatIndex(param_buffer.layers[u].w, k, g) = OffsetW(u) + k * N(u - 1) + g
    /\ as_slice(param_buffer) = ParamsInOrder(TRUE, L)

(***************************************************************************)
(* C11: the weight matrix of a layer has k rows (neurons of the layer) and *)
(* g columns (neurons of the previous layer) and is stored column by       *)
(* column: W_u[k][g] is the float at index offset_w(u) + g * n_u + k of    *)
(* the parameter buffer and b_u[k] the float at offset_w(u) + n_u *        *)
(* n_{u-1} + k, so that as_slice is W_1, b_1, W_2, b_2, ... in layer order *)
(* with each W in column-major order.                                      *)
(***************************************************************************)
C11_ColumnMajor ==
    /\ \A u \in 1 .. L : \A k \in 0 .. N(u) - 1 :
           /\ ColIndex(param_buffer.layers[u].b, k) = OffsetB(u) + k
           /\ \A g \in 0 .. N(u - 1) - 1 :
                  MatIndex(param_buffer.layers[u].w, k, g) = OffsetW(u) + g * N(u) + k
    /\ as_slice(param_buffer) = ParamsInOrder(FALSE, L)

\* A layer of two neurons on two inputs whose weights are not symmetric, after a
\* call on the buffers.
C11_Witness ==
    /\ call.op # "none"
    /\ N(0) = 2 /\ N(1) = 2
    /\ W(1, 0, 1) # W(1, 1, 0)
    /\ as_slice(param_buffer)[3] = W(1, 0, 1)

\* The buffer an accessor was called on, as its constructor made it.
CreatedOf(kind) ==
    CASE kind = "param" -> ParamBufferCreate(topology)
      [] kind = "result" -> ResultBufferCreate(topology)
      [] kind = "deriv" -> DerivBufferCreate(topology)

\* The indices of the buffer that the views of a layer cover.
ViewRegion(view) ==
    UNION {IF f \in MatKinds THEN MatRegion(view[f]) ELSE ColRegion(view[f]) :
           f \in (DOMAIN view) \cap (MatKinds \cup ColKinds)}

(***************************************************************************)
(* C12: layer(index) and layer_mut(index) of the param, result and deriv   *)
(* buffers return None exactly when index >= n_layers, and never panic;    *)
(* for index < n_layers they return Some(view) with the n, n_previous and  *)
(* regions the constructor computed for that layer.                        *)
(***************************************************************************)
C12_CheckedAccessors ==
    call.op \in {"layer", "layer_mut"} =>
        LET kind == call.x[1]
            index == call.x[2]
        IN  /\ Len(call.output) \in {0, 1}
            /\ call.output = <<>> <=> index >= L
            /\ index < L =>
                   LET view == call.output[1]
                       made == CreatedOf(kind).layers[index + 1]
                   IN  /\ view.n = N(index + 1)
                       /\ view.n_previous = N(index)
                       /\ view = made
                       /\ ViewRegion(view) = ViewRegion(made)
            /\ Floats = before

\* layer_mut of the last of two layers of the deriv buffer, whose views cover floats.
C12_Witness ==
    /\ call.op = "layer_mut"
    /\ call.x = <<"deriv", 1>>
    /\ L = 2
    /\ Len(call.output) = 1
    /\ ViewRegion(call.output[1]) # {}
    /\ call.output[1].dw.ptr > 0

C14_AsClaimed ==
    /\ \A b \in Created : (IsPanic(b) <=> ~HasLayers) /\ (IsBuffer(b) <=> HasLayers)
    /\ \A b1, b2 \in Created : IsPanic(b1) <=> IsPanic(b2)

(***************************************************************************)
(* C14: create panics on its assertion exactly for the topologies whose    *)
(* computed float count is 0, which are those without a layer and those    *)
(* whose layers all have zero neurons, and makes a buffer of every         *)
(* topology with a layer that has a neuron; the three constructors accept  *)
(* and reject the same topologies.                                         *)
(***************************************************************************)
C14_Construction ==
    /\ \A b \in Created :
           /\ IsPanic(b) <=> ~HasNeurons
           /\ IsBuffer(b) <=> HasNeurons
           /\ IsBuffer(b) => Cardinality(DOMAIN b.buffer) > 0
           /\ ~HasLayers => IsPanic(b)
    /\ \A b1, b2 \in Created : IsPanic(b1) <=> IsPanic(b2)

\* The three constructors have panicked on a topology that has layers.
C14_Witness ==
    /\ IsPanic(param_buffer) /\ IsPanic(result_buffer) /\ IsPanic(deriv_buffer)
    /\ HasLayers

\* The parameter count of the topology: the sum over the layers of n * n_previous + n.
ParamCount == SumNat([u \in 1 .. L |-> N(u) * N(u - 1) + N(u)], L)

(***************************************************************************)
(* C15: NeuralNetwork::load_params(buffer) returns Err(IncorrectLength)    *)
(* exactly when buffer.len() differs from the parameter count of the       *)
(* topology, and then leaves every parameter and every z and a as they     *)
(* were; when the length matches it returns Ok and params_buffer() is      *)
(* buffer, element for element.                                            *)
(***************************************************************************)
C15_LoadParams ==
    call.op = "load_params" =>
        /\ call.output = <<"Err(IncorrectLength)">> <=> Len(call.x) # ParamCount
        /\ call.output = <<"Ok(())">> <=> Len(call.x) = ParamCount
        /\ Len(call.x) # ParamCount => nn.storage.buffer = before.net
        /\ Len(call.x) = ParamCount => params_buffer(nn.storage) = call.x

\* A buffer one float too long is turned away by a network that holds parameters
\* and results that are not zero.
C15_Witness ==
    /\ call.op = "load_params"
    /\ Len(call.x) = ParamCount + 1
    /\ call.output = <<"Err(IncorrectLength)">>
    /\ \E i \in DOMAIN nn.storage.buffer :
           i < nn.storage.za_start /\ nn.storage.buffer[i] # Zero
    /\ \E i \in DOMAIN nn.storage.buffer :
           i >= nn.storage.za_start /\ nn.storage.buffer[i] # Zero

(***************************************************************************)
(* C16 as it is stated: when params_buffer() of a network is loaded with   *)
(* load_params into a network just constructed of the same topology, the   *)
(* two networks hold the same parameters, and forward on the two gives the *)
(* same z, a and output for every input.                                   *)
(***************************************************************************)
C16_AsClaimed ==
    call.op = "round_trip" =>
        /\ copy.loaded = "Ok(())"
        /\ params_buffer(copy.nn.storage) = params_buffer(nn.storage)
        /\ copy.nn.storage.buffer = nn.storage.buffer
        /\ copy.output = call.output

\* Four inputs and two neurons with b = (-1, 2) and the identity, on x = (1, 2, 1, 2):
\* the network, which holds a = (-1, 2) of an earlier forward, returns (-3, 6), and the
\* network just constructed and loaded with the same parameters returns (-1, 2).
C16_FailingInput ==
    /\ call.op = "round_trip"
    /\ N(0) = 4 /\ L = 1 /\ N(1) = 2
    /\ call.x = <<F(1), F(2), F(1), F(2)>>
    /\ params_buffer(copy.nn.storage) = params_buffer(nn.storage)
    /\ NetB(1, 0) = F(-1) /\ NetB(1, 1) = F(2)
    /\ before.net[ColIndex(RawLayer(nn.storage, 1).a, 0)] = F(-1)
    /\ before.net[ColIndex(RawLayer(nn.storage, 1).a, 1)] = F(2)
    /\ call.output = [k \in {0, 1} |-> IF k = 0 THEN F(-3) ELSE F(6)]
    /\ copy.output = [k \in {0, 1} |-> IF k = 0 THEN F(-1) ELSE F(2)]

(***************************************************************************)
(* C17: NeuralNetwork::forward on an input whose length differs from       *)
(* n_inputs panics with a message that states the expected and the found   *)
(* length, before anything is computed: no parameter, z or a of the        *)
(* network is modified; an input of length n_inputs is not turned away.    *)
(***************************************************************************)
C17_RejectsWrongLength ==
    call.op = "forward" =>
        /\ call.panic # <<>> <=> Len(call.x) # nn.n_inputs
        /\ call.panic # <<>> =>
               /\ call.panic[1].expected = N(0)
               /\ call.panic[1].found = Len(call.x)
               /\ nn.storage.buffer = before.net
               /\ call.output = <<>>

\* An input one float too long is turned away by a network that holds parameters
\* and results that are not zero.
C17_Witness ==
    /\ call.op = "forward"
    /\ Len(call.x) = N(0) + 1
    /\ call.panic # <<>>
    /\ \E i \in DOMAIN nn.storage.buffer :
           i < nn.storage.za_start /\ nn.storage.buffer[i] # Zero
    /\ \E i \in DOMAIN nn.storage.buffer :
           i >= nn.storage.za_start /\ nn.storage.buffer[i] # Zero

(***************************************************************************)
(* C18: training on an empty batch fails with an assertion before any      *)
(* state is changed: the call panics, and the parameters, the results and  *)
(* the gradients are as they were before it (no gradient is divided by a   *)
(* sample count of 0).                                                     *)
(***************************************************************************)
C18_AsClaimed ==
    (call.op = "calculate_derivs" /\ NSamples = 0) =>
        /\ call.panic # <<>>
        /\ Floats = before

\* calculate_derivs on no samples returns: every gradient is 0.0 / 0.0, not a
\* number, and so is the loss returned.
C18_FailingInput ==
    /\ call.op = "calculate_derivs"
    /\ NSamples = 0
    /\ call.panic = <<>>
    /\ call.loss = NaN
    /\ deriv_buffer.da_start > 0
    /\ \A i \in 0 .. deriv_buffer.da_start - 1 : deriv_buffer.buffer[i] = NaN
    /\ Floats # before


(***************************************************************************)
(* Gym: train(n_threads, eta, samples) on the core buffers.  One           *)
(* orchestrator (the caller's thread) and one worker thread per chunk; a   *)
(* worker has its own ResultBuffer and DerivBuffer and reads the shared    *)
(* ParamBuffer, sample by sample, through calculate_derivs; the deriv      *)
(* buffers come back through a channel and are applied by the orchestrator *)
(* once the scope of the workers has been joined.                          *)
(***************************************************************************)
MaxThreads == 2      \* n_threads of a train call
MaxGymSamples == 3   \* samples of a batch given to train
MaxTrains == 1       \* train calls made on a Gym

\* min(n_threads, samples.len()) chunks
ChunkCount(n_threads, len) == IF n_threads < len THEN n_threads ELSE len

\* Integer division determines the chunk size.
ChunkSize(n_threads, len) == len \div ChunkCount(n_threads, len)

\* Chunks that are all of the chunk size: the remainder is in no chunk.
ChunkBoundsEven(n_threads, len) ==
    [i \in 1 .. ChunkCount(n_threads, len) |->
        [start |-> (i - 1) * ChunkSize(n_threads, len),
         end |-> i * ChunkSize(n_threads, len)]]

\* The chunks as ranges start .. end - 1 of sample indices from 0; the last chunk
\* absorbs the remainder.
ChunkBounds(n_threads, len) ==
    [i \in 1 .. ChunkCount(n_threads, len) |->
        [start |-> (i - 1) * ChunkSize(n_threads, len),
         end |-> IF i = ChunkCount(n_threads, len) THEN len
                 ELSE i * ChunkSize(n_threads, len)]]

\* &samples[start..end]
ChunkOf(samples, bounds) == SubSeq(samples, bounds.start + 1, bounds.end)

\* A Gym on which no train call has been made.
GymIdle ==
    [pc |-> "idle", n_threads |-> 0, eta |-> Zero, samples |-> <<>>, chunks |-> <<>>,
     workers |-> <<>>, channel |-> <<>>, arrived |-> <<>>, applied |-> <<>>,
     at_call |-> <<>>,     loss |-> Zero, table |-> <<>>, trains |-> 0]

\* The Gym of a kernel topology of at most 3 units.
GymInit ==
    /\ \E seed \in {0, 1} :
           /\ topology \in
                  {t \in KernelTopologies(seed) :
                      t.n_inputs + SumSeq([i \in 1 .. Len(t.layer_descriptions) |->
                                              t.layer_descriptions[i].n_neurons]) <= 3}
           /\ LET created == ParamBufferCreate(topology)
              IN  param_buffer =
                      [created EXCEPT !.buffer = Fill(FillValues(seed), created.buffer)]
    /\ result_buffer = NotCreated
    /\ deriv_buffer = NotCreated
    /\ nn = NotCreated
    /\ copy = NotCreated
    /\ gym = GymIdle
    /\ call = NoCall
    /\ before = <<>>
    /\ log = NoLog
    /\ steps = 0

\* train_single_threaded(eta, samples): the kernel over the whole batch on the
\* scratch buffers of the Gym, then the step.  Returns the three buffers as the call
\* leaves them and the loss.
train_single_threaded(params, scratch_result, scratch_deriv, eta, samples) ==
    LET r == calculate_derivs(params, scratch_result, scratch_deriv, samples)
    IN  [param_buffer |-> apply_derivs(params, r.deriv_buffer, eta),
         result_buffer |-> r.result_buffer,
         deriv_buffer |-> r.deriv_buffer,
         loss |-> r.loss]

\* train with n_threads == 0, which delegates to train_single_threaded.  The scratch
\* buffers of the Gym are allocated on the first call that needs them.
TrainSingleThreaded ==
    /\ gym.pc = "idle"
    /\ gym.trains < MaxTrains
    /\ \E eta \in Etas,
          batch \in {[j \in 1 .. m |-> (m + j) % 2] : m \in 1 .. MaxGymSamples} :
           LET samples == [j \in 1 .. Len(batch) |-> SampleOf(batch[j], NInputs, NOutputs)]
               r == train_single_threaded(
                        param_buffer,
                        IF IsBuffer(result_buffer) THEN result_buffer
                        ELSE ResultBufferCreate(topology),
                        IF IsBuffer(deriv_buffer) THEN deriv_buffer
                        ELSE DerivBufferCreate(topology),
                        eta, samples)
           IN  /\ result_buffer' = r.result_buffer
               /\ deriv_buffer' = r.deriv_buffer
               /\ param_buffer' = r.param_buffer
               /\ gym' = [GymIdle EXCEPT !.eta = eta, !.samples = samples,
                                         !.at_call = param_buffer.buffer,
                                         !.trains = gym.trains + 1]
               /\ call' = [NoCall EXCEPT !.op = "train", !.eta = eta, !.samples = samples,
                                         !.loss = r.loss]
    /\ before' = [param |-> param_buffer.buffer]
    /\ UNCHANGED <<copy, topology, nn, log, steps>>

\* The kernel on entry, on buffers just allocated: deriv_buffer.clear_params(),
\* loss = 0.0.
KernelEntry ==
    LET own_result == ResultBufferCreate(topology)
        own_deriv == clear_params(DerivBufferCreate(topology))
    IN  [rbuffer |-> own_result.buffer,
         dbuffer |-> own_deriv.buffer,
         loss |-> Zero,
         l_i |-> Zero,
         tag |-> [j \in DOMAIN own_deriv.buffer |-> [zeroed |-> 0, adds |-> 0]],
         order |-> <<>>,
         reads |-> <<>>]

\* One turn of the loop of the kernel: n += 1; loss += back_propagate_sample(..),
\* for sample n of the chunk, on the parameters params.
KernelSample(st, params, chunk, n) ==
    LET s == back_propagate_sample(st, params, ResultBufferCreate(topology).layers,
                                   DerivBufferCreate(topology).layers,
                                   chunk[n][1], chunk[n][2], n)
    IN  [s EXCEPT !.loss = FAdd(st.loss, s.l_i)]

\* KernelSample is a function of its arguments.  Its values on the parameters of
\* the call are tabulated once per chunk: for sample n, the state of the kernel
\* before the sample (from) and after it (to).
KernelTable(params, chunk) ==
    [n \in 1 .. Len(chunk) |->
        [from |-> SamplesLoop(KernelEntry, params, ResultBufferCreate(topology).layers,
                              DerivBufferCreate(topology).layers, chunk, n - 1),
         to |-> SamplesLoop(KernelEntry, params, ResultBufferCreate(topology).layers,
                            DerivBufferCreate(topology).layers, chunk, n)]]

\* train(n_threads, eta, samples), n_threads >= 1: partitions the samples and spawns
\* one worker per chunk; a worker that was spawned has not run yet.
Spawn(n_threads, eta, samples) ==
    LET chunks == ChunkBounds(n_threads, Len(samples))
        spawned == [pc |-> "spawned", k |-> 0, st |-> <<>>, deriv |-> <<>>, loss |-> Zero]
    IN  /\ gym' = [GymIdle EXCEPT !.pc = "scope", !.n_threads = n_threads,
                                  !.eta = eta, !.samples = samples,
                                  !.chunks = chunks,
                                  !.workers = [i \in 1 .. Len(chunks) |-> spawned],
                                  !.at_call = param_buffer.buffer,
                                  !.table = [i \in 1 .. Len(chunks) |->
                                      KernelTable(param_buffer,
                                                  ChunkOf(samples, chunks[i]))],
                                  !.trains = gym.trains + 1]
        /\ call' = [NoCall EXCEPT !.op = "train", !.eta = eta, !.samples = samples]
        /\ before' = [param |-> param_buffer.buffer]
        /\ UNCHANGED <<copy, topology, nn, param_buffer, result_buffer, deriv_buffer, log, steps>>

Train ==
    /\ gym.pc = "idle"
    /\ gym.trains < MaxTrains
    /\ \E n_threads \in 1 .. MaxThreads, eta \in Etas,
          batch \in {[j \in 1 .. m |-> (m + j) % 2] : m \in 1 .. MaxGymSamples} :
           Spawn(n_threads, eta,
                 [j \in 1 .. Len(batch) |-> SampleOf(batch[j], NInputs, NOutputs)])

\* A worker begins: it allocates its own ResultBuffer and DerivBuffer and enters the
\* kernel.
WorkerBegin(i) ==
    /\ gym.workers[i].pc = "spawned"
    /\ gym' = [gym EXCEPT !.workers[i] =
                  [pc |-> "reading", k |-> 0, st |-> KernelEntry,
                   deriv |-> DerivBufferCreate(topology), loss |-> Zero]]
    /\ UNCHANGED <<copy, topology, nn, param_buffer, result_buffer, deriv_buffer, call, before, log, steps>>

\* A worker passes the next sample of its chunk through back_propagate_sample, on
\* the shared parameters as they are at that moment: the tabulated value where the
\* arguments are those of the table, the computed one where they are not.
WorkerSample(i) ==
    /\ gym.workers[i].pc = "reading"
    /\ gym.workers[i].k < gym.chunks[i].end - gym.chunks[i].start
    /\ LET w == gym.workers[i]
           n == w.k + 1
           tabulated == gym.table[i][n]
       IN  gym' = [gym EXCEPT !.workers[i] =
                      [w EXCEPT !.k = n,
                                !.st = IF param_buffer.buffer = gym.at_call
                                          /\ w.st = tabulated.from
                                       THEN tabulated.to
                                       ELSE KernelSample(w.st, param_buffer,
                                                ChunkOf(gym.samples, gym.chunks[i]), n)]]
    /\ UNCHANGED <<copy, topology, nn, param_buffer, result_buffer, deriv_buffer, call, before, log, steps>>

\* A kernel that returns the sums over the chunk, not divided.
WorkerResultSummed(st, da_start, n) == [deriv |-> st.dbuffer, loss |-> st.loss]

\* What the kernel leaves in the deriv buffer of a worker and returns after the n
\* samples of its chunk: every dw and db divided by n, loss / n.
WorkerResult(st, da_start, n) ==
    [deriv |-> AverageParams(st.dbuffer, da_start, F(n)),
     loss |-> AverageLoss(st.loss, F(n))]

\* A worker leaves the kernel and sends (loss, deriv_buffer) through the channel.
WorkerSend(i) ==
    /\ gym.workers[i].pc = "reading"
    /\ gym.workers[i].k = gym.chunks[i].end - gym.chunks[i].start
    /\ LET w == gym.workers[i]
           r == WorkerResult(w.st, w.deriv.da_start, w.k)
       IN  gym' = [gym EXCEPT
                      !.workers[i] = [pc |-> "done", k |-> w.k, st |-> <<>>,
                                      deriv |-> [w.deriv EXCEPT !.buffer = r.deriv],
                                      loss |-> r.loss],
                      !.channel = Append(gym.channel, i),
                      !.arrived = Append(gym.arrived, i)]
    /\ UNCHANGED <<copy, topology, nn, param_buffer, result_buffer, deriv_buffer, call, before, log, steps>>

\* A scope that is left as soon as one worker has sent.
SomeWorkerComplete(g) == \E i \in DOMAIN g.workers : g.workers[i].pc = "done"

\* The scope of the workers is joined: every worker has completed.
AllWorkersComplete(g) == \A i \in DOMAIN g.workers : g.workers[i].pc = "done"

\* After all workers complete the orchestrator turns to the channel.
Join ==
    /\ gym.pc = "scope"
    /\ AllWorkersComplete(gym)
    /\ gym' = [gym EXCEPT !.pc = "applying"]
    /\ UNCHANGED <<copy, topology, nn, param_buffer, result_buffer, deriv_buffer, call, before, log, steps>>

\* A receiver that takes the results in the order of the chunks.
RecvLowest(channel) ==
    LET i == CHOOSE m \in {channel[j] : j \in DOMAIN channel} :
                 \A j \in DOMAIN channel : m <= channel[j]
    IN  [worker |-> i, rest |-> SelectSeq(channel, LAMBDA m : m # i)]

\* recv(): the result that arrived first.
Recv(channel) == [worker |-> Head(channel), rest |-> Tail(channel)]

\* recv(), then apply_derivs of that worker's deriv buffer on the shared
\* parameters, on the orchestrator's thread; the loss received is added up.
Apply ==
    /\ gym.pc = "applying"
    /\ gym.channel # <<>>
    /\ LET i == Recv(gym.channel).worker
       IN  /\ param_buffer' = apply_derivs(param_buffer, gym.workers[i].deriv, gym.eta)
           /\ gym' = [gym EXCEPT !.channel = Recv(gym.channel).rest,
                                 !.applied = Append(gym.applied, i),
                                 !.loss = FAdd(gym.loss, gym.workers[i].loss)]
    /\ UNCHANGED <<copy, topology, nn, result_buffer, deriv_buffer, call, before, log, steps>>

\* Apply on parameters that need the whole significand of an f32.
ApplyF32 ==
    /\ gym.pc = "applying"
    /\ gym.channel # <<>>
    /\ LET i == Recv(gym.channel).worker
       IN  /\ param_buffer' = apply_derivs_f32(param_buffer, gym.workers[i].deriv, gym.eta)
           /\ gym' = [gym EXCEPT !.channel = Recv(gym.channel).rest,
                                 !.applied = Append(gym.applied, i),
                                 !.loss = FAdd(gym.loss, gym.workers[i].loss)]
    /\ UNCHANGED <<copy, topology, nn, result_buffer, deriv_buffer, call, before, log, steps>>

\* A return that does not wait for the channel to be drained.
ReturnEarly ==
    /\ gym.pc = "applying"
    /\ AllWorkersComplete(gym)
    /\ gym' = [gym EXCEPT !.pc = "idle"]
    /\ call' = [call EXCEPT !.loss = FDiv(gym.loss, F(Len(gym.workers)))]
    /\ UNCHANGED <<copy, topology, nn, param_buffer, result_buffer, deriv_buffer, before, log, steps>>

\* train returns the mean of the losses of the workers.
Return ==
    /\ gym.pc = "applying"
    /\ gym.channel = <<>>
    /\ AllWorkersComplete(gym)
    /\ gym' = [gym EXCEPT !.pc = "idle"]
    /\ call' = [call EXCEPT !.loss = FDiv(gym.loss, F(Len(gym.workers)))]
    /\ UNCHANGED <<copy, topology, nn, param_buffer, result_buffer, deriv_buffer, before, log, steps>>

Worker == \E i \in DOMAIN gym.workers : WorkerBegin(i) \/ WorkerSample(i) \/ WorkerSend(i)

GymNext == TrainSingleThreaded \/ Train \/ Worker \/ Join \/ Apply \/ Return

SpecGym == GymInit /\ [][GymNext]_vars

(***************************************************************************)
(* The Gym on parameters and labels near 2^24, where an f32 has no bit for *)
(* the units: one input, one neuron with the identity, W = 0 and x = 0, so *)
(* that z = b, every value of the kernel is an f32 and the rounding is in  *)
(* the steps of apply_derivs alone.                                        *)
(***************************************************************************)
\* The biases near 2^24.
GymLargeInit ==
    /\ topology = Topology(1, Descs(<<1>>, 0))
    /\ \E b \in {2^24 - 2, 2^24, 2^24 + 2, 2^24 + 4} :
           param_buffer = [ParamBufferCreate(topology) EXCEPT
                              !.buffer = [i \in DOMAIN @ |-> IF i = 0 THEN Zero ELSE F(b)]]
    /\ result_buffer = NotCreated
    /\ deriv_buffer = NotCreated
    /\ nn = NotCreated
    /\ copy = NotCreated
    /\ gym = GymIdle
    /\ call = NoCall
    /\ before = <<>>
    /\ log = NoLog
    /\ steps = 0

\* train on the batches of one or two samples (<<0.0>>, <<y>>), y near 2^24.
TrainLarge ==
    /\ gym.pc = "idle"
    /\ gym.trains < MaxTrains
    /\ \E n_threads \in 1 .. MaxThreads, eta \in Etas,
          ys \in UNION {[1 .. m -> {2^24 - 2, 2^24 + 2, 2^24 + 6}] : m \in 1 .. 2} :
           Spawn(n_threads, eta,
                 [j \in 1 .. Len(ys) |->
                     <<[i \in {0} |-> Zero], [k \in {0} |-> F(ys[j])]>>])

GymF32Next == TrainLarge \/ Worker \/ Join \/ ApplyF32 \/ Return

SpecGymF32 == GymLargeInit /\ [][GymF32Next]_vars

\* OS threads: a thread that can take a step is scheduled in the end, the worker
\* threads and the thread of the caller alike; nothing obliges a caller to call
\* train.
GymFairness ==
    /\ \A i \in 1 .. MaxThreads :
           WF_vars(/\ i \in DOMAIN gym.workers
                   /\ (WorkerBegin(i) \/ WorkerSample(i) \/ WorkerSend(i)))
    /\ WF_vars(Join \/ Apply \/ Return)

\* The Gyms whose train calls are followed to their return: one input, one neuron.
GymLiveInit == GymInit /\ topology.n_inputs = 1 /\ NOutputs = 1 /\ Len(topology.layer_descriptions) = 1

SpecGymLive == GymLiveInit /\ [][GymNext]_vars /\ GymFairness


\* The chunks of the last train call, one after the other.
RECURSIVE Concat(_, _)
Concat(chunks, n) ==
    IF n = 0 THEN <<>> ELSE Concat(chunks, n - 1) \o ChunkOf(gym.samples, chunks[n])

(***************************************************************************)
(* C19: train(n_threads, eta, samples) with n_threads >= 1 and a batch     *)
(* that is not empty splits the samples into c = min(n_threads, len)       *)
(* chunks: each chunk is a contiguous range that is not empty, each chunk  *)
(* begins where the one before it ends (so no two overlap), the first      *)
(* begins at sample 0 and the last ends at the last sample, the chunks one *)
(* after the other are the batch in its order, the first c - 1 chunks have *)
(* floor(len / c) samples and the last has all the others.                 *)
(***************************************************************************)
C19_Chunks ==
    (gym.n_threads >= 1 /\ Len(gym.samples) >= 1) =>
        LET len == Len(gym.samples)
            c == IF gym.n_threads < len THEN gym.n_threads ELSE len
            chunks == gym.chunks
        IN  /\ Len(chunks) = c
            /\ Len(gym.workers) = c
            /\ \A i \in 1 .. c :
                   /\ 0 <= chunks[i].start
                   /\ chunks[i].start < chunks[i].end
                   /\ chunks[i].end <= len
                   /\ chunks[i].end - chunks[i].start =
                          (IF i < c THEN len \div c ELSE len - (c - 1) * (len \div c))
            /\ chunks[1].start = 0
            /\ chunks[c].end = len
            /\ \A i \in 1 .. c - 1 : chunks[i + 1].start = chunks[i].end
            /\ \A i, j \in 1 .. c :
                   i # j => (chunks[i].start .. chunks[i].end - 1)
                                \cap (chunks[j].start .. chunks[j].end - 1) = {}
            /\ Concat(chunks, c) = gym.samples

\* A batch of 3 samples on 2 threads: a chunk of 1 and a last chunk of 2, both
\* passed through the kernel by their workers.
C19_Witness ==
    /\ gym.n_threads = 2
    /\ Len(gym.samples) = 3
    /\ Len(gym.chunks) = 2
    /\ gym.chunks[2].end - gym.chunks[2].start = 2
    /\ gym.workers[1].pc = "done" /\ gym.workers[1].k = 1
    /\ gym.workers[2].pc = "done" /\ gym.workers[2].k = 2


\* What calculate_derivs leaves in the buffers of worker i, and returns, on the
\* parameters that held when train was called.
GradientsAtCall(i) ==
    calculate_derivs([param_buffer EXCEPT !.buffer = gym.at_call],
                     ResultBufferCreate(topology), DerivBufferCreate(topology),
                     ChunkOf(gym.samples, gym.chunks[i]))

\* The parameters after the deriv buffers of the first n workers of applied have
\* been applied to buffer, one after the other.
RECURSIVE AppliedInOrder(_, _, _)
AppliedInOrder(buffer, applied, n) ==
    IF n = 0 THEN buffer
    ELSE LET done == AppliedInOrder(buffer, applied, n - 1)
             dp == gym.workers[applied[n]].deriv.buffer
             da_start == DerivBufferCreate(topology).da_start
         IN  Then(done, [j \in DOMAIN done |->
                            IF j < da_start THEN FSub(done[j], FMul(gym.eta, dp[j]))
                            ELSE done[j]])

(***************************************************************************)
(* C20: during a train call on n_threads >= 1 threads the parameters are   *)
(* never written while a worker is still reading them: in every state of   *)
(* every interleaving, if a deriv buffer has been applied or a parameter   *)
(* differs from its value at the call, every worker has sent its result;   *)
(* the parameters are those at the call with the deriv buffers received so *)
(* far applied by the orchestrator one after the other, no worker's twice; *)
(* and the gradients and the loss of every worker that has sent are those  *)
(* of calculate_derivs on its chunk and the parameters at the call.        *)
(***************************************************************************)
C20_NoWriteWhileRead ==
    (gym.n_threads >= 1) =>
        /\ (gym.applied # <<>> \/ param_buffer.buffer # gym.at_call) =>
               /\ gym.pc \in {"applying", "idle"}
               /\ \A i \in DOMAIN gym.workers : gym.workers[i].pc = "done"
        /\ \A m, n \in DOMAIN gym.applied : m # n => gym.applied[m] # gym.applied[n]
        /\ \A m \in DOMAIN gym.applied : gym.applied[m] \in DOMAIN gym.workers
        /\ param_buffer.buffer = AppliedInOrder(gym.at_call, gym.applied, Len(gym.applied))
        /\ \A i \in DOMAIN gym.workers :
               gym.workers[i].pc = "done" =>
                   /\ gym.workers[i].deriv.buffer = GradientsAtCall(i).deriv_buffer.buffer
                   /\ gym.workers[i].loss = GradientsAtCall(i).loss

\* Two workers have each passed their chunk through the kernel, and the
\* orchestrator has applied the deriv buffer of the second worker, which was the
\* first to send: the parameters have changed and the deriv buffer of the first
\* worker is still in the channel.
C20_Witness ==
    /\ gym.n_threads = 2
    /\ gym.pc = "applying"
    /\ Len(gym.workers) = 2
    /\ gym.applied = <<2>>
    /\ gym.channel = <<1>>
    /\ param_buffer.buffer # gym.at_call
    /\ \A i \in DOMAIN gym.workers : gym.workers[i].pc = "done" /\ gym.workers[i].k >= 1


InTrain == gym.pc \in {"scope", "applying"}
TrainReturned == gym.pc = "idle" /\ gym.n_threads >= 1

(***************************************************************************)
(* C22: every train call on n_threads >= 1 threads returns (no worker      *)
(* panics in the model), and when it has returned every worker spawned has *)
(* sent its result and is joined, the channel is empty, the deriv buffer   *)
(* of every worker has been applied exactly once, and the parameters are   *)
(* those at the call with each of these deriv buffers subtracted with the  *)
(* eta of the call.                                                        *)
(***************************************************************************)
C22_TerminatesAppliedOnce ==
    /\ InTrain ~> TrainReturned
    /\ [](TrainReturned =>
             /\ Len(gym.workers) = Len(gym.chunks)
             /\ \A i \in DOMAIN gym.workers : gym.workers[i].pc = "done"
             /\ gym.channel = <<>>
             /\ Len(gym.applied) = Len(gym.workers)
             /\ \A i \in DOMAIN gym.workers :
                    Cardinality({m \in DOMAIN gym.applied : gym.applied[m] = i}) = 1
             /\ param_buffer.buffer =
                    AppliedInOrder(gym.at_call, gym.applied, Len(gym.applied)))

\* A train call on 2 threads has returned after the deriv buffers of both workers
\* were applied, that of worker 2 first.
C22_Witness ==
    /\ TrainReturned
    /\ call.op = "train"
    /\ Len(gym.workers) = 2
    /\ gym.applied = <<2, 1>>
    /\ param_buffer.buffer # gym.at_call


\* AppliedInOrder with the steps of f32.
RECURSIVE AppliedInOrderF32(_, _, _)
AppliedInOrderF32(buffer, applied, n) ==
    IF n = 0 THEN buffer
    ELSE LET done == AppliedInOrderF32(buffer, applied, n - 1)
             dp == gym.workers[applied[n]].deriv
         IN  Then(done, [j \in DOMAIN done |->
                            IF j < dp.da_start THEN StepF32(done[j], dp.buffer[j], gym.eta)
                            ELSE done[j]])

(***************************************************************************)
(* C23: in a train call on n_threads >= 1 threads the deriv buffers are    *)
(* applied in the order in which the workers have sent them, whatever the  *)
(* order of the chunks: in every state the workers applied so far are the  *)
(* first to have arrived, in that order, and the parameters are those at   *)
(* the call with these deriv buffers applied in that order.  (That two     *)
(* orders of arrival can leave different parameters is C23_Witness.)       *)
(***************************************************************************)
C23_ArrivalOrder ==
    (gym.n_threads >= 1) =>
        /\ Len(gym.applied) <= Len(gym.arrived)
        /\ gym.applied = SubSeq(gym.arrived, 1, Len(gym.applied))
        /\ gym.channel = SubSeq(gym.arrived, Len(gym.applied) + 1, Len(gym.arrived))
        /\ param_buffer.buffer =
               AppliedInOrderF32(gym.at_call, gym.applied, Len(gym.applied))

\* A train call on two threads has returned; worker 2 was the first to send, and
\* the parameters it has left are not those that the same two deriv buffers leave
\* when that of worker 1 is applied first.
C23_Witness ==
    /\ TrainReturned
    /\ Len(gym.workers) = 2
    /\ gym.arrived = <<2, 1>>
    /\ gym.applied = <<2, 1>>
    /\ param_buffer.buffer = AppliedInOrderF32(gym.at_call, <<2, 1>>, 2)
    /\ param_buffer.buffer # AppliedInOrderF32(gym.at_call, <<1, 2>>, 2)

\* A train call on the Gym of a network has returned.
NetGymReturned == call.op \in {"train", "train_unchecked"} /\ call.panic = <<>>

\* The floats of the network and of its deriv buffer that belong together: every w
\* with its dw and every b with its db.
ParamPairs == UNION {GymApplyPairs(nn, deriv_buffer, u) : u \in 1 .. nn.n_layers}

\* The gradients of the samples of the last call alone, summed: what its loop leaves
\* in a deriv buffer that is zero when the call begins.
FreshGradients ==
    TrainLoop(FALSE, [nn EXCEPT !.storage.buffer = before.net],
              [deriv_buffer EXCEPT !.buffer = Zeroed(Cardinality(DOMAIN before.deriv))],
              call.samples, call.junk, Len(call.samples)).deriv_buffer.buffer

(***************************************************************************)
(* C24: in every call of a sequence of train calls on one Gym, dw and db   *)
(* are zero when the call begins, and the update subtracted from each      *)
(* parameter is eta times the gradient averaged over the samples of that   *)
(* call alone.                                                             *)
(***************************************************************************)
C24_AsClaimed ==
    NetGymReturned =>
        /\ \A p \in ParamPairs : before.deriv[p[2]] = Zero
        /\ \A p \in ParamPairs :
               nn.storage.buffer[p[1]] =
                   FSub(before.net[p[1]],
                        FMul(call.eta, FDiv(FreshGradients[p[2]], F(Len(call.samples)))))

\* The second train call of a Gym begins with the averaged gradients of the first in
\* dw and db, and subtracts more than eta times the averaged gradient of its own
\* samples.
C24_FailingInput ==
    /\ NetGymReturned
    /\ steps = 2
    /\ call.samples \in SizedBatches(nn.n_inputs, nn.n_outputs)
    /\ Len(call.samples) = 1
    /\ \E p \in ParamPairs :
           /\ before.deriv[p[2]] # Zero
           /\ IsFinite(nn.storage.buffer[p[1]])
           /\ nn.storage.buffer[p[1]] =
                  FSub(before.net[p[1]],
                       FMul(call.eta, FAdd(before.deriv[p[2]], FreshGradients[p[2]])))
           /\ nn.storage.buffer[p[1]] #
                  FSub(before.net[p[1]], FMul(call.eta, FreshGradients[p[2]]))

\* Sample i of the last call has an x of n_inputs floats and a y of n_outputs floats.
WellSized(i) ==
    /\ Len(call.samples[i][1]) = nn.n_inputs
    /\ Len(call.samples[i][2]) = nn.n_outputs

(***************************************************************************)
(* C25: the checked Gym::train returns without a panic on every batch in   *)
(* which each sample has x.len() = n_inputs and y.len() = n_outputs, it    *)
(* panics on a batch with a sample whose x or y has another length, and    *)
(* train_sample is entered with samples of the right lengths alone.        *)
(***************************************************************************)
C25_AsClaimed ==
    call.op = "train" =>
        /\ (call.panic = <<>>) <=> (\A i \in DOMAIN call.samples : WellSized(i))
        /\ \A i \in DOMAIN call.samples :
               (\E j \in DOMAIN gym.entered : gym.entered[j] = i) => WellSized(i)

\* On a network with as many inputs as outputs the checked train takes a sample whose
\* y is too short: both assertions are on x_i.len(), train_sample is entered and the
\* call returns, with a loss computed from a read past the end of y.
C25_FailingInput ==
    /\ call.op = "train"
    /\ nn.n_inputs = nn.n_outputs
    /\ Len(call.samples) = 1
    /\ Len(call.samples[1][1]) = nn.n_inputs
    /\ Len(call.samples[1][2]) < nn.n_outputs
    /\ gym.entered = <<1>>
    /\ call.panic = <<>>

(***************************************************************************)
(* C26: the parameter section of the DerivBuffer has the layout of the     *)
(* ParamBuffer of the same topology: da_start is the length of the         *)
(* ParamBuffer, in every layer dw is where W is and db is where b is, and  *)
(* every da lies from da_start on, so that the zip of apply_derivs over    *)
(* the first da_start floats pairs each parameter with its own gradient    *)
(* and reaches no da.                                                      *)
(***************************************************************************)
C26_ParamSection ==
    (IsBuffer(param_buffer) /\ IsBuffer(deriv_buffer)) =>
        /\ deriv_buffer.da_start = Cardinality(DOMAIN param_buffer.buffer)
        /\ Len(deriv_buffer.layers) = Len(param_buffer.layers)
        /\ \A u \in 1 .. Len(param_buffer.layers) :
               /\ deriv_buffer.layers[u].dw = param_buffer.layers[u].w
               /\ deriv_buffer.layers[u].db = param_buffer.layers[u].b
               /\ \A i \in ColRegion(deriv_buffer.layers[u].da) :
                      /\ i >= deriv_buffer.da_start
                      /\ i \in DOMAIN deriv_buffer.buffer

\* Both buffers of a topology of two layers with neurons are created.
C26_Witness ==
    /\ IsBuffer(param_buffer)
    /\ IsBuffer(deriv_buffer)
    /\ Len(param_buffer.layers) = 2
    /\ \A u \in 1 .. 2 : param_buffer.layers[u].n >= 1
    /\ deriv_buffer.layers[2].dw.ptr > 0
    /\ deriv_buffer.da_start < Cardinality(DOMAIN deriv_buffer.buffer)

(***************************************************************************)
(* C27: backpropagation neither reads nor writes the da of the output      *)
(* layer.  After any sequence of calls it holds the zeros it was created   *)
(* with; no da read of a calculate_derivs is on the output layer; and the  *)
(* error of the output layer is a - y: after a calculate_derivs on one     *)
(* sample, db of the output layer is (a[k] - y[k]) * phi'(z[k]).           *)
(***************************************************************************)
C27_OutputDaUnused ==
    /\ \A i \in ColRegion(deriv_buffer.layers[L].da) : deriv_buffer.buffer[i] = Zero
    /\ \A i \in DOMAIN log.reads : log.reads[i].u + 1 # L
    /\ (call.op = "calculate_derivs" /\ NSamples = 1) =>
           \A k \in 0 .. N(L) - 1 :
               Db(L, k) = FMul(FSub(A(L, k), Y(1)[k]), PhiDeriv(Phi(L), Z(L, k)))

\* A second calculate_derivs in a row on a network of two layers has returned, with
\* an output error that is not zero and gradients that are not zero.
C27_Witness ==
    /\ call.op = "calculate_derivs"
    /\ steps = 2
    /\ NSamples = 1
    /\ L = 2
    /\ \E k \in 0 .. N(L) - 1 : A(L, k) # Y(1)[k] /\ Db(L, k) # Zero
    /\ log.reads # <<>>
    /\ before.deriv # DerivBufferCreate(topology).buffer
    /\ \A i \in ColRegion(deriv_buffer.layers[L].da) : deriv_buffer.buffer[i] = Zero

\* What the last call has left as it was.
KernelFrame ==
    /\ call.op \in {"forward", "calculate_derivs"} => param_buffer.buffer = before.param
    /\ call.op = "apply_derivs" =>
           /\ deriv_buffer.buffer = before.deriv
           /\ result_buffer.buffer = before.result

\* An apply_derivs that follows an apply_derivs: the parameters before the first,
\* less eta * dp of the one deriv buffer twice.
AppliedTwice ==
    (call.op = "apply_derivs" /\ call'.op = "apply_derivs" /\ steps' = steps + 1) =>
        \A i \in DOMAIN param_buffer.buffer :
            param_buffer'.buffer[i] =
                FSub(FSub(before.param[i], FMul(call.eta, deriv_buffer.buffer[i])),
                     FMul(call'.eta, deriv_buffer.buffer[i]))

ForwardReturned == call.op = "forward" /\ call.panic = <<>>

(***************************************************************************)
(* C29: NeuralNetwork::forward stays inside its regions: in every layer,   *)
(* with n neurons and n_previous inputs, every weight index it reads lies  *)
(* in the weight region of that layer, [offset_w, offset_w + n *           *)
(* n_previous), every a_prev index in [0, n_previous) and every bias index *)
(* in [0, n); no read is past the end of the buffer.                       *)
(***************************************************************************)
C29_AsClaimed ==
    ForwardReturned =>
        \A u \in 1 .. nn.n_layers :
            LET raw == RawLayer(nn.storage, u)
            IN  \A k \in 0 .. raw.n - 1 :
                    /\ ColIndex(raw.b, k) \in ColRegion(raw.b)
                    /\ \A g \in 0 .. raw.n_previous - 1 :
                           /\ ForwardWeightIndex(raw.w.ptr, raw.n_previous, k, g)
                                  \in raw.w.ptr .. raw.w.ptr + raw.n * raw.n_previous - 1
                           /\ ForwardWeightIndex(raw.w.ptr, raw.n_previous, k, g)
                                  \in DOMAIN nn.storage.buffer
                           /\ g \in 0 .. raw.n_previous - 1

\* A forward on a network of one layer with more inputs than neurons has returned:
\* it has read weights past the weight region of the layer, one of them past the end
\* of the buffer.
C29_FailingInput ==
    /\ ForwardReturned
    /\ nn.n_layers = 1
    /\ LET raw == RawLayer(nn.storage, 1)
       IN  /\ raw.n < raw.n_previous
           /\ \E k \in 0 .. raw.n - 1, g \in 0 .. raw.n_previous - 1 :
                  ForwardWeightIndex(raw.w.ptr, raw.n_previous, k, g)
                      \notin DOMAIN nn.storage.buffer

\* The floats of the buffer of a network that are parameters and that are results.
NetParamRegion ==
    UNION {MatRegion(RawLayer(nn.storage, u).w) \cup ColRegion(RawLayer(nn.storage, u).b) :
              u \in 1 .. nn.n_layers}
NetResultRegion ==
    UNION {ColRegion(RawLayer(nn.storage, u).z) \cup ColRegion(RawLayer(nn.storage, u).a) :
              u \in 1 .. nn.n_layers}

(***************************************************************************)
(* C30: in the one buffer of a NeuralNetwork the parameters are the floats *)
(* [0, za_start) and the results the floats [za_start, len); forward       *)
(* writes into the result section alone: params_buffer() after a forward   *)
(* is params_buffer() before it.                                           *)
(***************************************************************************)
C30_ForwardFrame ==
    /\ NetParamRegion = 0 .. nn.storage.za_start - 1
    /\ NetResultRegion = nn.storage.za_start .. Cardinality(DOMAIN nn.storage.buffer) - 1
    /\ call.op = "forward" =>
           /\ params_buffer(nn.storage) =
                  params_buffer([nn.storage EXCEPT !.buffer = before.net])
           /\ \A i \in NetParamRegion : nn.storage.buffer[i] = before.net[i]

\* A forward on a network of two layers with loaded parameters has returned new
\* results.
C30_Witness ==
    /\ call.op = "forward"
    /\ call.panic = <<>>
    /\ nn.n_layers = 2
    /\ \E i \in NetParamRegion : nn.storage.buffer[i] # Zero
    /\ \E i \in NetResultRegion : nn.storage.buffer[i] # before.net[i]

====
